---- MODULE Spec2Model ----
(***************************************************************************)
(* Session/auth coordinator of the sodEx browser extension.                *)
(*                                                                         *)
(* Spec        the background service worker (src/background/background.js):*)
(*             APIService and the runtime message listener, as cooperating *)
(*             asynchronous tasks over chrome.storage.local.               *)
(* SpecChecks  the behaviours of Spec in which the only messages are       *)
(*             "checkAuth".                                                *)
(* SpecPopup   the popup/options side (utils/dataModels.js, Options.jsx)   *)
(*             over the same storage keys.                                 *)
(* SpecTimer   checks begun by messages, by onInstalled/onStartup and by   *)
(*             the revalidation timer.                                     *)
(* SpecQueue   "checkAuth" messages with several callers behind the lock.  *)
(* SpecStale   checks and logouts, with the calls a logout outlived marked.*)
(* SpecToken   getSessionToken() and clearSessionData(), with the token's  *)
(*             value.                                                      *)
(* SpecSite    the popup's site record (Popup.jsx): lookup, page scan,     *)
(*             upsert, and the background's envelopes.                     *)
(* SpecSweep   startup, the revalidation timer and the 30-minute sweep.    *)
(* SpecClear   the options page clearing storage under a running check.    *)
(* SpecScan    the content script's search for the policy link             *)
(*             (src/content/content.js).                                   *)
(* SpecIntervals  the revalidation timer with the identity of every        *)
(*             interval setInterval created.                               *)
(* SpecQueueFair  SpecQueue with every storage and network operation       *)
(*             eventually completing.                                      *)
(* SpecGuarded the message listener's commands behind checkAuthentication. *)
(* SpecTab    chrome.tabs.onUpdated: activity update, page scan, upsert.   *)
(* SpecPopupCheck  the pages' own checkAuthentication                      *)
(*             (utils/dataModels.js).                                      *)
(* SpecManager the pages' SessionManager (utils/sessionUtils.js): its      *)
(*             periodic check and its listeners.                           *)
(*                                                                         *)
(* Execution model.  JavaScript runs one macrotask at a time.  A task      *)
(* suspends at every storage callback and every network response; one      *)
(* action of the model is the code a task runs between two suspension      *)
(* points.  A storage operation takes effect when it is issued, a read     *)
(* captures the value when it is issued, and the callback is a later step. *)
(* Promise continuations (microtasks) run before any other macrotask:      *)
(* while a task sits in a frame of MicroFrames only Deliver is enabled.    *)
(* Callbacks of different tasks arrive in any order: neither               *)
(* chrome.storage nor fetch promises an order between independent calls.   *)
(***************************************************************************)
EXTENDS Integers, Sequences, FiniteSets, Bags, TLC

\* ------------------------------------------------------------- bounds
\* Tasks alive at once (running, or queued behind the auth-check lock).
MaxTasks == 2
\* The clock runs 0..MaxNow.
MaxNow == 1
\* Fire-and-forget session validations alive at once.
MaxSessions == 1
\* Callers waiting in authCheckQueue at once, where the order of the queue is
\* what is looked at.
MaxQueue == 2
\* Popups open at once.
MaxPopups == 1
\* Links (a[href] elements) in a scanned document.
MaxLinks == 3
\* Revalidation timers created (setInterval calls) in a run.
MaxIntervals == 3
\* Listeners ever registered with one SessionManager.
MaxListeners == 2

\* ------------------------------------------------------------- values
\* expires_at: "" (falsy); a timestamp is a number >= 1.
NoExp == 0
\* chrome.storage.local.get of a key that is not stored.
NoAuth == [absent |-> TRUE]
NoData == [absent |-> TRUE]
\* A task-local slot that holds nothing.
None == [none |-> TRUE]

\* The expiry the server stamps on a token: the first tick of the clock.
Stamps == {1}

\* authData records as the code writes them (username travels with user_id
\* and is_authenticated is never read back, so neither is a field here).
AuthRecord(tok, uid, exp, chk) ==
  [auth_token |-> tok, user_id |-> uid, expires_at |-> exp, last_check |-> chk]

\* getAuthData's default when the key is absent.
DefaultAuthData == AuthRecord("", "", NoExp, 0)

\* What a server (auth_data) or a sender of the setAuthData command can
\* supply: a token with an expiry, a token without one, no token at all.
AuthPayloads ==
  { [auth_token |-> "t1", user_id |-> "u1", expires_at |-> e] : e \in Stamps }
  \cup { [auth_token |-> "t1", user_id |-> "u1", expires_at |-> NoExp],
         [auth_token |-> "", user_id |-> "", expires_at |-> NoExp] }

\* The canonical session the server answers sessions/validate with.
ServerSession == [authenticated |-> TRUE, session_token |-> "srv"]

\* ------------------------------------------------------------- results
AuthOk(user) == [authenticated |-> TRUE, user |-> user]
AuthFail(reason) == [authenticated |-> FALSE, reason |-> reason]
\* A promise that rejected instead of resolving.
Rejected == [rejected |-> TRUE]
IsAuthenticated(r) == "authenticated" \in DOMAIN r /\ r.authenticated

VARIABLES
  authData,                   \* chrome.storage.local "authData"
  sessionToken,               \* chrome.storage.local "sessionToken" (present?;
                              \* in SpecToken the token itself)
  browserSessionData,         \* chrome.storage.local "browserSessionData"
  sessionValidationInterval,  \* APIService.sessionValidationInterval (set?)
  authCheckInProgress,        \* APIService.authCheckInProgress
  authCheckQueue,             \* APIService.authCheckQueue: pending resolvers
  tasks,                      \* bag of the tasks in flight
  now                         \* the clock, new Date()

vars == <<authData, sessionToken, browserSessionData, sessionValidationInterval,
          authCheckInProgress, authCheckQueue, tasks, now>>

storage == <<authData, sessionToken, browserSessionData>>

\* ------------------------------------------------------------- tasks
\* kind      the top-level operation (the message or callback that began it)
\* stack     frames, innermost first; a frame names the suspension point
\* rd        the value captured by the pending storage read
\* hasToken  _performAuthCheck's authData.auth_token truthiness
\* res       what checkAuthentication() resolved with
\* net, isa  fetches issued by this checkAuthentication() call: all of
\*           them, and those to is_authenticated
\* seen      what the check read: "none" (no token), "valid" (a token with
\*           a future expiry), "expired", "noexpiry" (a token without one)
\* answer    what is_authenticated answered
\* fetched   the auth_data body the check fetched
\* posted    what sessions/validate answered ("true", "false"), or "401"
\*           when the authenticated request was refused
\* arr       the caller's place in authCheckQueue when it arrived (0: it
\*           took the lock)
\* ord       the caller's place among the promises the finished check
\*           resolved
\* sent      the envelopes the message's sendResponse was called with
\* stale     the task was in flight when a logout() completed
NewTask(kind, frames) ==
  [kind |-> kind, stack |-> frames, rd |-> None, hasToken |-> FALSE,
   res |-> None, net |-> 0, isa |-> 0, seen |-> "", answer |-> "",
   fetched |-> None, posted |-> "", arr |-> 0, ord |-> 0, sent |-> <<>>,
   stale |-> FALSE]

\* Frames whose continuation is a microtask of the step that produced them.
MicroFrames == {"resolved", "lo_done", "tm_done", "st_done", "sw_done",
                "g_done", "t_done"}

Top(t) == Head(t.stack)
Live == BagToSet(tasks)
MicrotaskPending == \E t \in Live : Top(t) \in MicroFrames
NTasks == BagCardinality(tasks) + Len(authCheckQueue)

\* Task t, about to run the macrotask that resumes frame f.
At(t, f) == t \in Live /\ Top(t) = f /\ ~MicrotaskPending

Without(t) == tasks (-) SetToBag({t})
Replace(t, u) == Without(t) (+) SetToBag({u})

\* Sessions spawned by the fast path and not awaited by anyone, and how many
\* of them are in flight.
IsSpawned(t) == t.kind = "session"
SpawnedSessions ==
  BagCardinality([t \in {x \in Live : IsSpawned(x)} |-> tasks[t]])

RECURSIVE SeqToBag(_)
SeqToBag(s) == IF s = <<>> THEN EmptyBag
               ELSE SetToBag({Head(s)}) (+) SeqToBag(Tail(s))

\* ------------------------------------------------------------- storage
\* getAuthData: the stored record, or the empty default.
getAuthData == IF authData = NoAuth THEN DefaultAuthData ELSE authData

\* getStoredSessionData: the stored record, or {}.
getStoredSessionData ==
  IF browserSessionData = NoData THEN [authenticated |-> FALSE, session_token |-> ""]
  ELSE browserSessionData

\* clearAuthData without line 347
clearAuthData_TimerKept ==
  /\ sessionValidationInterval' = sessionValidationInterval
  /\ authData' = NoAuth
\* clearAuthData: stopSessionValidation(), then remove "authData".
clearAuthData ==
  /\ sessionValidationInterval' = FALSE
  /\ authData' = NoAuth

\* clearSessionData: remove "sessionToken" and "browserSessionData".
clearSessionData ==
  /\ sessionToken' = FALSE
  /\ browserSessionData' = NoData

\* ------------------------------------------------------------- _performAuthCheck's tests
hasToken(ad) == ad.auth_token # ""
hasExpiration(ad) == ad.expires_at # NoExp
\* line 48 with the comparison turned round
isNotExpired_Reversed(ad) == hasExpiration(ad) /\ ad.expires_at < now
\* line 48
isNotExpired(ad) == hasExpiration(ad) /\ ad.expires_at > now
\* line 54: the cached token is used
UseCached(ad) == hasToken(ad) /\ hasExpiration(ad) /\ isNotExpired(ad)
\* line 61: the server is asked
AskServer(ad) == ~hasToken(ad) \/ (hasExpiration(ad) /\ ad.expires_at <= now)

\* What the check read, told apart without the code's own tests.
Seen(ad) ==
  IF ad.auth_token = "" THEN "none"
  ELSE IF ad.expires_at = NoExp THEN "noexpiry"
  ELSE IF ad.expires_at > now THEN "valid" ELSE "expired"

\* line 17 without the test of the lock
MustWait_Never == FALSE
\* line 17: a caller waits when a check is in progress
MustWait == authCheckInProgress

\* lines 133-136 with a catch that rethrows
OnAuthCheckError_Rethrown == Rejected
\* lines 133-136: what the outer catch of _performAuthCheck returns
OnAuthCheckError == AuthFail("network_error")

\* line 156: `response.authenticated` is read off the fetch Response, which has
\* no such property (the parsed body is `result`): it is undefined for every
\* answer of the server.
ResponseAuthenticated(body) == FALSE

\* ------------------------------------------------------------- checkAuthentication
Resolve(t, r) == [t EXCEPT !.stack = <<"resolved">>, !.res = r, !.rd = None,
                           !.hasToken = FALSE]

\* line 31: the i-th resolver the flush loop takes off the queue
Shift_Pop(queue, i) == queue[Len(queue) + 1 - i]
Shift(queue, i) == queue[i]

\* line 30 with a loop that stops at one resolver
Unflushed_Last(queue) == IF queue = <<>> THEN <<>> ELSE <<queue[Len(queue)]>>
\* line 30: what the flush loop leaves in the queue
Unflushed(queue) == <<>>

\* lines 37-39 with a `finally` that leaves the lock
LockReleased_Kept == TRUE
\* lines 37-39: authCheckInProgress after `finally`
LockReleased == FALSE

\* _performAuthCheck returned r to checkAuthentication (lines 28-39): every
\* queued resolver gets r, in order, then the caller; the lock is released.
\* When _performAuthCheck throws, the loop is skipped and the caller's promise
\* rejects; `finally` still releases the lock.
\* t is the task as it stands in `tasks`, u the same task as this step leaves it.
Finish(t, u, r, more) ==
  /\ authCheckInProgress' = LockReleased
  /\ IF r = Rejected
     THEN /\ authCheckQueue' = authCheckQueue
          /\ tasks' = Replace(t, Resolve(u, r)) (+) more
     ELSE LET flushed == Len(authCheckQueue) - Len(Unflushed(authCheckQueue))
          IN /\ authCheckQueue' = Unflushed(authCheckQueue)
             /\ tasks' = Without(t)
                         (+) SetToBag({[Resolve(u, r) EXCEPT
                                         !.ord = flushed + 1]})
                         (+) SeqToBag([i \in 1 .. flushed |->
                                         [Resolve(Shift(authCheckQueue, i), r)
                                            EXCEPT !.ord = i]])
                         (+) more

\* A caller of kind k invokes checkAuthentication() (lines 15-26, 43): it is
\* queued behind the lock, or takes the lock and issues getAuthData.  No more
\* than `limit` tasks are followed at once.
checkAuthenticationWithin(k, limit) ==
  /\ ~MicrotaskPending
  /\ NTasks < limit
  /\ IF MustWait
     THEN /\ authCheckQueue' = Append(authCheckQueue,
                                      [NewTask(k, <<"queued">>) EXCEPT
                                         !.arr = Len(authCheckQueue) + 1])
          /\ UNCHANGED <<tasks, authCheckInProgress>>
     ELSE /\ authCheckInProgress' = TRUE
          /\ tasks' = tasks (+) SetToBag({[NewTask(k, <<"pac_got">>)
                                            EXCEPT !.rd = getAuthData]})
          /\ UNCHANGED authCheckQueue
  /\ UNCHANGED <<storage, sessionValidationInterval, now>>

checkAuthentication(k) == checkAuthenticationWithin(k, MaxTasks)

\* validateOrCreateBrowserSession() is called (line 144): getBrowserSessionData
\* issues getSessionToken's read at once.  `under` are the caller's frames.
CallSession(t, under) ==
  [t EXCEPT !.stack = <<"gst", "v_payload">> \o under, !.rd = sessionToken,
            !.hasToken = FALSE]

\* lines 46-61, 139-140: getAuthData has answered.
performAuthCheck(t) ==
  /\ At(t, "pac_got")
  /\ LET ad == t.rd
         u  == [t EXCEPT !.seen = Seen(ad)]
     IN IF UseCached(ad)
        THEN /\ SpawnedSessions < MaxSessions
             /\ Finish(t, u, AuthOk(ad.user_id),
                       SetToBag({CallSession(NewTask("session", <<>>), <<"spawned">>)}))
        ELSE IF AskServer(ad)
        THEN /\ tasks' = Replace(t, [u EXCEPT !.stack = <<"pac_isauth">>,
                                              !.hasToken = hasToken(ad),
                                              !.rd = None,
                                              !.net = @ + 1, !.isa = @ + 1])
             /\ UNCHANGED <<authCheckInProgress, authCheckQueue>>
        ELSE Finish(t, u, AuthFail("unknown"), EmptyBag)
  /\ UNCHANGED <<storage, sessionValidationInterval, now>>

\* setAuthData(rec) is called (lines 314-318): chrome.storage.local.set is
\* issued and either stores rec or fails with runtime.lastError.
\* The callback only looks at rec.auth_token (line 331).
CallSetAuthData(t, rec, saved, under) ==
  [t EXCEPT !.stack = <<(IF saved THEN "sad_ok" ELSE "sad_fail")>> \o under,
            !.rd = IF saved THEN rec.auth_token ELSE None, !.hasToken = FALSE]

\* lines 64-76, 123-136: is_authenticated has answered.
isAuthenticatedResponse(t) ==
  /\ At(t, "pac_isauth")
  /\ \E a \in {"neterr", "notok", "false", "true"} :
       LET u == [t EXCEPT !.answer = a] IN
       CASE a = "neterr" ->
              /\ Finish(t, u, AuthFail("network_error"), EmptyBag)
              /\ UNCHANGED <<storage, sessionValidationInterval>>
         [] a \in {"notok", "false"} ->
              \* lines 124, 129: await this.clearAuthData()
              /\ clearAuthData
              /\ tasks' = Replace(t, [u EXCEPT !.stack = <<"pac_clr_auth">>,
                                               !.hasToken = FALSE])
              /\ UNCHANGED <<sessionToken, browserSessionData,
                             authCheckInProgress, authCheckQueue>>
         [] a = "true" /\ ~t.hasToken ->
              \* lines 78-87: fetch auth_data
              /\ tasks' = Replace(t, [u EXCEPT !.stack = <<"pac_authdata">>,
                                               !.net = @ + 1])
              /\ UNCHANGED <<storage, sessionValidationInterval,
                             authCheckInProgress, authCheckQueue>>
         [] a = "true" /\ t.hasToken ->
              \* line 119, 339-341: updateAuthData reads the current record
              /\ tasks' = Replace(t, [u EXCEPT
                     !.stack = <<"uad_got", "pac_upd">>,
                     !.rd = [getAuthData EXCEPT !.last_check = now],
                     !.hasToken = FALSE])
              /\ UNCHANGED <<storage, sessionValidationInterval,
                             authCheckInProgress, authCheckQueue>>
  /\ UNCHANGED now

\* lines 125, 130 without the call of clearSessionData
authCleared_KeepsSession(t) ==
  /\ At(t, "pac_clr_auth")
  /\ tasks' = Replace(t, [t EXCEPT !.stack = <<"pac_clr_sess">>])
  /\ UNCHANGED <<storage, sessionValidationInterval, authCheckInProgress,
                 authCheckQueue, now>>
\* lines 124-131: clearAuthData is done, clearSessionData is issued; then
\* clearSessionData is done and the check returns its reason.
authCleared(t) ==
  /\ At(t, "pac_clr_auth")
  /\ clearSessionData
  /\ tasks' = Replace(t, [t EXCEPT !.stack = <<"pac_clr_sess">>])
  /\ UNCHANGED <<authData, sessionValidationInterval, authCheckInProgress,
                 authCheckQueue, now>>

sessionCleared(t) ==
  /\ At(t, "pac_clr_sess")
  /\ Finish(t, t, AuthFail(IF t.answer = "false" THEN "invalid_token"
                           ELSE "server_error"), EmptyBag)
  /\ UNCHANGED <<storage, sessionValidationInterval, now>>

\* An auth_data fetch that threw ("neterr") or answered a non-OK status.
Failed(o) == [failed |-> o]
\* lines 109-116 with the two reasons exchanged
AuthDataFailure_Swapped(o) ==
  AuthFail(IF o = "notok" THEN "network_error" ELSE "server_error")
\* lines 109-116: the reason reported for it
AuthDataFailure(o) ==
  AuthFail(IF o = "notok" THEN "server_error" ELSE "network_error")

\* lines 89-101, 109-116: auth_data has answered.
authDataResponse(t) ==
  /\ At(t, "pac_authdata")
  /\ \/ /\ Finish(t, [t EXCEPT !.fetched = Failed("neterr")],
                  AuthDataFailure("neterr"), EmptyBag)
        /\ UNCHANGED storage
     \/ /\ Finish(t, [t EXCEPT !.fetched = Failed("notok")],
                  AuthDataFailure("notok"), EmptyBag)
        /\ UNCHANGED storage
     \/ \E body \in AuthPayloads, saved \in BOOLEAN :
          LET rec == AuthRecord(body.auth_token, body.user_id,
                                body.expires_at, now)
          IN /\ authData' = IF saved THEN rec ELSE authData
             /\ tasks' = Replace(t, CallSetAuthData([t EXCEPT !.fetched = body],
                                                    rec, saved, <<"pac_new">>))
             /\ UNCHANGED <<sessionToken, browserSessionData,
                            authCheckInProgress, authCheckQueue>>
  /\ UNCHANGED <<sessionValidationInterval, now>>

\* lines 341-342: updateAuthData has the current record and sets the merge.
updateAuthData(t) ==
  /\ At(t, "uad_got")
  /\ \E saved \in BOOLEAN :
       /\ authData' = IF saved THEN t.rd ELSE authData
       /\ tasks' = Replace(t, CallSetAuthData(t, t.rd, saved, Tail(t.stack)))
  /\ UNCHANGED <<sessionToken, browserSessionData, sessionValidationInterval,
                 authCheckInProgress, authCheckQueue, now>>

\* lines 103-106 without the inner try: the rejection reaches line 133
OnSaveError_Uncaught == AuthFail("network_error")
\* lines 103-106: what _performAuthCheck returns when setAuthData rejects
OnSaveError == AuthFail("storage_error")

\* lines 318-335: chrome.storage.local.set has called back.  A failure rejects
\* (to the message listener, to line 103, or through line 119 to line 133); a
\* success starts the revalidation timer when the record has a token, and the
\* caller goes on.
setAuthData(t) ==
  /\ At(t, "sad_ok") \/ At(t, "sad_fail")
  /\ LET saved  == Top(t) = "sad_ok"
         caller == t.stack[2]
     IN /\ sessionValidationInterval' =
             IF saved /\ t.rd # "" THEN TRUE
             ELSE sessionValidationInterval
        /\ CASE caller = "msg_sad" ->
                  \* lines 593-596: sendResponse
                  /\ tasks' = Without(t)
                  /\ UNCHANGED <<authCheckInProgress, authCheckQueue>>
             [] caller = "pac_new" /\ ~saved ->
                  Finish(t, t, OnSaveError, EmptyBag)
             [] caller = "pac_upd" /\ ~saved ->
                  Finish(t, t, OnAuthCheckError, EmptyBag)
             [] caller \in {"pac_new", "pac_upd"} /\ saved ->
                  \* lines 107, 120: await this.validateOrCreateBrowserSession()
                  /\ tasks' = Replace(t, CallSession(t, <<"pac_v">>))
                  /\ UNCHANGED <<authCheckInProgress, authCheckQueue>>
  /\ UNCHANGED <<storage, now>>

\* ------------------------------------------------------------- sessions
Bottom(t) == t.stack[Len(t.stack)]
\* The frames under the two innermost ones.
Under2(t) == SubSeq(t.stack, 3, Len(t.stack))

\* `result.user` of the is_authenticated body.
ServerUser == "u1"

\* validateOrCreateBrowserSession returned (lines 169, 174, 181, 185) to the
\* check that awaited it (lines 108, 121), or to nobody (line 56).
ReturnSession(t, u) ==
  IF Bottom(t) = "pac_v"
  THEN Finish(t, u, AuthOk(ServerUser), EmptyBag)
  ELSE /\ tasks' = Without(t)
       /\ UNCHANGED <<authCheckInProgress, authCheckQueue>>

\* makeAuthenticatedRequest returned a response (o = "ok", "notok") or threw
\* (o = "threw"), to validateOrCreateBrowserSession (lines 153-186) or to
\* logout (lines 282-290).
RequestDone(t, o) ==
  IF t.stack[2] = "lo_delete"
  THEN \* line 290: await this.clearAuthData()
       /\ clearAuthData
       /\ tasks' = Replace(t, [t EXCEPT !.stack = <<"lo_clr_auth">>, !.rd = None])
       /\ UNCHANGED <<sessionToken, browserSessionData, authCheckInProgress,
                      authCheckQueue>>
  ELSE IF o # "ok"
  THEN /\ ReturnSession(t, t)
       /\ UNCHANGED <<storage, sessionValidationInterval>>
  ELSE \E authenticated \in BOOLEAN :
         LET body == [ServerSession EXCEPT !.authenticated = authenticated]
             u == [t EXCEPT !.rd = None,
                            !.posted = IF authenticated THEN "true" ELSE "false"]
         IN IF ResponseAuthenticated(body)
            THEN \* lines 157, 212: updateBrowserSessionData reads the record
                 /\ tasks' = Replace(t, [u EXCEPT
                        !.stack = <<"v_upd_got">> \o Under2(t),
                        !.rd = [getStoredSessionData EXCEPT
                                  !.authenticated = TRUE,
                                  !.session_token = body.session_token]])
                 /\ UNCHANGED <<storage, sessionValidationInterval,
                                authCheckInProgress, authCheckQueue>>
            ELSE \* line 172: await this.clearSessionData()
                 /\ clearSessionData
                 /\ tasks' = Replace(t, [u EXCEPT !.stack = <<"v_clr">> \o Under2(t)])
                 /\ UNCHANGED <<authData, sessionValidationInterval,
                                authCheckInProgress, authCheckQueue>>

\* lines 374-386: getSessionToken's read has called back; a token is generated
\* and stored when none was read.  Then validateOrCreateBrowserSession builds
\* its payload (lines 191-198: the stored session data, then the public IP),
\* or logout goes on to its DELETE (lines 282, 396).
getSessionToken(t) ==
  /\ At(t, "gst")
  /\ sessionToken' = IF t.rd = FALSE THEN TRUE ELSE sessionToken
  /\ IF t.stack[2] = "v_payload"
     THEN tasks' = Replace(t, [t EXCEPT !.stack = <<"v_ip">> \o Under2(t),
                                        !.rd = None, !.net = @ + 1])
     ELSE tasks' = Replace(t, [t EXCEPT !.stack = <<"mar_got", "lo_delete">>,
                                        !.rd = getAuthData.auth_token])
  /\ UNCHANGED <<authData, browserSessionData, sessionValidationInterval,
                 authCheckInProgress, authCheckQueue, now>>

\* lines 764-772, 148, 396: the public IP has answered (or failed: "unknown");
\* makeAuthenticatedRequest is called and issues getAuthData.
getPublicIP(t) ==
  /\ At(t, "v_ip")
  /\ tasks' = Replace(t, [t EXCEPT !.stack = <<"mar_got", "v_req">> \o Tail(t.stack),
                                   !.rd = getAuthData.auth_token])
  /\ UNCHANGED <<storage, sessionValidationInterval, authCheckInProgress,
                 authCheckQueue, now>>

\* lines 396-412: getAuthData has answered; without a token the request
\* throws "Not authenticated", with one the fetch is issued.
makeAuthenticatedRequest(t) ==
  /\ At(t, "mar_got")
  /\ IF t.rd = ""
     THEN RequestDone(t, "threw")
     ELSE /\ tasks' = Replace(t, [t EXCEPT !.stack = <<"mar_fetch">> \o Tail(t.stack),
                                           !.rd = None, !.net = @ + 1])
          /\ UNCHANGED <<storage, sessionValidationInterval,
                         authCheckInProgress, authCheckQueue>>
  /\ UNCHANGED now

\* lines 409-421: the fetch threw, or answered 401, another status, or OK.
requestResponse(t) ==
  /\ At(t, "mar_fetch")
  /\ \/ RequestDone(t, "threw")
     \/ RequestDone(t, "notok")
     \/ RequestDone(t, "ok")
     \/ \* line 416: await this.clearAuthData()
        /\ clearAuthData
        /\ tasks' = Replace(t, [t EXCEPT !.stack = <<"mar_clr_auth">> \o Tail(t.stack),
                                         !.posted = "401"])
        /\ UNCHANGED <<sessionToken, browserSessionData, authCheckInProgress,
                       authCheckQueue>>
  /\ UNCHANGED now

\* lines 417-418: after a 401, clearSessionData, then "Authentication expired".
requestUnauthorized(t) ==
  /\ \/ /\ At(t, "mar_clr_auth")
        /\ clearSessionData
        /\ tasks' = Replace(t, [t EXCEPT !.stack = <<"mar_clr_sess">> \o Tail(t.stack)])
        /\ UNCHANGED <<authData, sessionValidationInterval, authCheckInProgress,
                       authCheckQueue>>
     \/ /\ At(t, "mar_clr_sess")
        /\ RequestDone(t, "threw")
  /\ UNCHANGED now

\* lines 157-174, 211-218: the storage operation validateOrCreateBrowserSession
\* awaited after the server's answer has called back.
validateOrCreateBrowserSession(t) ==
  /\ CASE At(t, "v_clr") ->
            \* line 173: this.clearAuthData(), not awaited; line 174
            /\ clearAuthData
            /\ ReturnSession(t, t)
            /\ UNCHANGED <<sessionToken, browserSessionData>>
       [] At(t, "v_upd_got") ->
            \* line 216: set the merged record
            /\ browserSessionData' = t.rd
            /\ tasks' = Replace(t, [t EXCEPT !.stack = <<"v_upd_set">> \o Tail(t.stack),
                                             !.rd = None])
            /\ UNCHANGED <<authData, sessionToken, sessionValidationInterval,
                           authCheckInProgress, authCheckQueue>>
       [] At(t, "v_upd_set") ->
            \* line 169
            /\ ReturnSession(t, t)
            /\ UNCHANGED <<storage, sessionValidationInterval>>
       [] OTHER -> FALSE
  /\ UNCHANGED now

\* ------------------------------------------------------------- logout
\* lines 290-292: clearAuthData is done, clearSessionData is issued; then
\* clearSessionData is done, stopSessionValidation() runs and logout resolves.
logout(t) ==
  /\ \/ /\ At(t, "lo_clr_auth")
        /\ clearSessionData
        /\ tasks' = Replace(t, [t EXCEPT !.stack = <<"lo_clr_sess">>])
        /\ UNCHANGED <<authData, sessionValidationInterval>>
     \/ /\ At(t, "lo_clr_sess")
        /\ sessionValidationInterval' = FALSE
        /\ tasks' = Replace(t, [t EXCEPT !.stack = <<"lo_done">>])
        /\ UNCHANGED storage
  /\ UNCHANGED <<authCheckInProgress, authCheckQueue, now>>

\* ------------------------------------------------------------- messages
\* lines 576-583: "checkAuth"
onCheckAuth == checkAuthentication("checkAuth")

\* lines 590-597, 314-318: "setAuthData" with the sender's record
onSetAuthData ==
  /\ ~MicrotaskPending
  /\ NTasks < MaxTasks
  /\ \E p \in AuthPayloads, saved \in BOOLEAN :
       LET rec == AuthRecord(p.auth_token, p.user_id, p.expires_at, 0)
       IN /\ authData' = IF saved THEN rec ELSE authData
          /\ tasks' = tasks (+) SetToBag({CallSetAuthData(
                          NewTask("setAuthData", <<>>), rec, saved, <<"msg_sad">>)})
  /\ UNCHANGED <<sessionToken, browserSessionData, sessionValidationInterval,
                 authCheckInProgress, authCheckQueue, now>>

\* lines 599-606, 278, 376: "clearAuth" calls logout, which issues
\* getSessionToken's read.
onClearAuth ==
  /\ ~MicrotaskPending
  /\ NTasks < MaxTasks
  /\ tasks' = tasks (+) SetToBag({[NewTask("clearAuth", <<"gst", "lo_token">>)
                                    EXCEPT !.rd = sessionToken]})
  /\ UNCHANGED <<storage, sessionValidationInterval, authCheckInProgress,
                 authCheckQueue, now>>

\* The messages whose handler ends with one sendResponse of the result.
MessageKinds == {"checkAuth", "clearAuth"}

\* Continuations run in the order their promises were resolved.
FirstResolved(t) ==
  \A o \in Live : Top(o) \in MicroFrames => t.ord <= o.ord

\* The continuation of a resolved promise: sendResponse (lines 579-582,
\* 602-605), after which the task is over.
Deliver(t) ==
  /\ t \in Live
  /\ Top(t) \in MicroFrames
  /\ t.kind \in MessageKinds
  /\ FirstResolved(t)
  /\ tasks' = Without(t)
  /\ UNCHANGED <<storage, sessionValidationInterval, authCheckInProgress,
                 authCheckQueue, now>>

\* Time passes between macrotasks.
Tick ==
  /\ ~MicrotaskPending
  /\ now < MaxNow
  /\ now' = now + 1
  /\ UNCHANGED <<storage, sessionValidationInterval, authCheckInProgress,
                 authCheckQueue, tasks>>

\* ------------------------------------------------------------- specification
\* The service worker starts with whatever an earlier run left in storage.
StoredAuth == {NoAuth} \cup {AuthRecord(p.auth_token, p.user_id, p.expires_at, 0) :
                               p \in AuthPayloads}

Init ==
  /\ authData \in StoredAuth
  /\ sessionToken \in BOOLEAN
  /\ browserSessionData \in {NoData} \cup (IF sessionToken THEN {ServerSession} ELSE {})
  /\ sessionValidationInterval = FALSE
  /\ authCheckInProgress = FALSE
  /\ authCheckQueue = <<>>
  /\ tasks = EmptyBag
  /\ now = 0

\* The steps of a checkAuthentication() call and of the session validation it
\* awaits or spawns.
CheckStep(t) ==
  \/ performAuthCheck(t)
  \/ isAuthenticatedResponse(t)
  \/ authCleared(t)
  \/ sessionCleared(t)
  \/ authDataResponse(t)
  \/ updateAuthData(t)
  \/ setAuthData(t)
  \/ getSessionToken(t)
  \/ getPublicIP(t)
  \/ makeAuthenticatedRequest(t)
  \/ requestResponse(t)
  \/ requestUnauthorized(t)
  \/ validateOrCreateBrowserSession(t)
  \/ Deliver(t)

Step(t) ==
  \/ CheckStep(t)
  \/ logout(t)

Next ==
  \/ onCheckAuth
  \/ onSetAuthData
  \/ onClearAuth
  \/ Tick
  \/ \E t \in Live : Step(t)

Spec == Init /\ [][Next]_vars

NextChecks ==
  \/ onCheckAuth
  \/ Tick
  \/ \E t \in Live : CheckStep(t)

SpecChecks == Init /\ [][NextChecks]_vars

\* ------------------------------------------------------------- revalidation timer
\* lines 260-261: the revalidation timer fires while it is set.
onInterval ==
  /\ sessionValidationInterval = TRUE
  /\ checkAuthentication("timer")

\* line 262 with a callback that never cancels
StopOnResult_Never(r) == FALSE
\* line 262: the callback cancels the timer on this result
StopOnResult(r) == ~IsAuthenticated(r)

\* lines 261-265: the timer's check has resolved; stopSessionValidation() on an
\* unauthenticated result.
intervalCallback(t) ==
  /\ t \in Live /\ Top(t) = "resolved" /\ t.kind = "timer"
  /\ FirstResolved(t)
  /\ sessionValidationInterval' =
       IF StopOnResult(t.res) THEN FALSE ELSE sessionValidationInterval
  /\ tasks' = Replace(t, [t EXCEPT !.stack = <<"tm_done">>])
  /\ UNCHANGED <<storage, authCheckInProgress, authCheckQueue, now>>

\* lines 496-500, 511-512: onInstalled / onStartup call checkAuthentication().
onStartup == checkAuthentication("startup")

\* lines 502-507, 514-516, 255-266: its check has resolved;
\* startSessionValidation() on an authenticated result.
startupCallback(t) ==
  /\ t \in Live /\ Top(t) = "resolved" /\ t.kind = "startup"
  /\ FirstResolved(t)
  /\ sessionValidationInterval' =
       IF IsAuthenticated(t.res) THEN TRUE ELSE sessionValidationInterval
  /\ tasks' = Replace(t, [t EXCEPT !.stack = <<"st_done">>])
  /\ UNCHANGED <<storage, authCheckInProgress, authCheckQueue, now>>

\* The timer callback, the listener or the sweep's callback has returned.
HandlerDone(t) ==
  /\ t \in Live /\ Top(t) \in {"tm_done", "st_done", "sw_done"}
  /\ FirstResolved(t)
  /\ tasks' = Without(t)
  /\ UNCHANGED <<storage, sessionValidationInterval, authCheckInProgress,
                 authCheckQueue, now>>

TimerStep(t) ==
  \/ CheckStep(t)
  \/ intervalCallback(t)
  \/ startupCallback(t)
  \/ HandlerDone(t)

NextTimer ==
  \/ onCheckAuth
  \/ onStartup
  \/ onInterval
  \/ Tick
  \/ \E t \in Live : TimerStep(t)

SpecTimer == Init /\ [][NextTimer]_vars

\* ------------------------------------------------------------- the 30-minute sweep
\* lines 755-756: the sweep's timer, which is never cancelled, fires.
onSweep == checkAuthentication("sweep")

\* line 757 with a sweep that never cancels
SweepStops_Never(authStatus) == FALSE
\* line 757: the sweep cancels the revalidation timer on this result
SweepStops(authStatus) == ~IsAuthenticated(authStatus)

\* lines 756-760: the sweep's check has resolved; stopSessionValidation() on
\* an unauthenticated result.
sweepCallback(t) ==
  /\ t \in Live /\ Top(t) = "resolved" /\ t.kind = "sweep"
  /\ FirstResolved(t)
  /\ sessionValidationInterval' =
       IF SweepStops(t.res) THEN FALSE ELSE sessionValidationInterval
  /\ tasks' = Replace(t, [t EXCEPT !.stack = <<"sw_done">>])
  /\ UNCHANGED <<storage, authCheckInProgress, authCheckQueue, now>>

NextSweep ==
  \/ onStartup
  \/ onSweep
  \/ onInterval
  \/ Tick
  \/ \E t \in Live : TimerStep(t) \/ sweepCallback(t)

SpecSweep == Init /\ [][NextSweep]_vars

\* ------------------------------------------------------------- the options page's "clear session data"
\* Options.jsx lines 93-101: chrome.storage.local.clear() from the options
\* page removes every key; the background's timer is not told.
optionsClearSessionData ==
  /\ ~MicrotaskPending
  /\ storage # <<NoAuth, FALSE, NoData>>
  /\ authData' = NoAuth
  /\ sessionToken' = FALSE
  /\ browserSessionData' = NoData
  /\ UNCHANGED <<sessionValidationInterval, authCheckInProgress,
                 authCheckQueue, tasks, now>>

NextClear ==
  \/ onStartup
  \/ onInterval
  \/ optionsClearSessionData
  \/ Tick
  \/ \E t \in Live : TimerStep(t)

SpecClear == Init /\ [][NextClear]_vars

\* "checkAuth" messages alone, with up to MaxQueue callers behind the lock.
onCheckAuthQueued == checkAuthenticationWithin("checkAuth", MaxQueue + 1)

NextQueue ==
  \/ onCheckAuthQueued
  \/ \E t \in Live : CheckStep(t)

SpecQueue == Init /\ [][NextQueue]_vars

\* The same, provided every storage and network operation completes: a call
\* that can take a step does not wait forever.
SpecQueueFair ==
  /\ SpecQueue
  /\ WF_vars(\E t \in Live : CheckStep(t))

\* ------------------------------------------------------------- logout among calls in flight
\* A call that is in flight while a logout() completes.
Outlived(t) == [t EXCEPT !.stale = TRUE]

\* logout (lines 290-292) as above; the step in which it completes leaves its
\* mark on every other call in flight.
logoutObserved(t) ==
  \/ /\ At(t, "lo_clr_auth")
     /\ logout(t)
  \/ /\ At(t, "lo_clr_sess")
     /\ sessionValidationInterval' = FALSE
     /\ tasks' = BagOfAll(Outlived, Without(t))
                 (+) SetToBag({[t EXCEPT !.stack = <<"lo_done">>]})
     /\ UNCHANGED <<storage, authCheckInProgress, authCheckQueue, now>>

NextStale ==
  \/ onCheckAuth
  \/ onClearAuth
  \/ Tick
  \/ \E t \in Live : CheckStep(t) \/ logoutObserved(t)

SpecStale == Init /\ [][NextStale]_vars

\* ------------------------------------------------------------- the session token's identity
\* Above, "sessionToken" is followed as present or absent.  Here it holds the
\* token itself, and the only calls are getSessionToken() and
\* clearSessionData().

\* chrome.storage.local.get of "sessionToken" when it is not stored.
NoToken == [absent |-> TRUE]
\* What Math.random() can contribute to a token.
Randoms == {1, 2}

\* lines 388-391: "ext_session_" + Date.now() + "_" + random
generateSessionToken(r) == [at |-> now, random |-> r]

\* lines 374-376: getSessionToken() is called and issues its read.
callGetSessionToken ==
  /\ NTasks < MaxTasks
  /\ tasks' = tasks (+) SetToBag({[NewTask("token", <<"tk_got">>)
                                    EXCEPT !.rd = sessionToken]})
  /\ UNCHANGED <<storage, sessionValidationInterval, authCheckInProgress,
                 authCheckQueue, now>>

\* lines 376-384: the read has called back: the token read is returned, or a
\* new one is generated, set and returned.
sessionTokenCallback(t) ==
  /\ t \in Live /\ Top(t) = "tk_got"
  /\ IF t.rd # NoToken
     THEN /\ tasks' = Replace(t, [t EXCEPT !.stack = <<"tk_ret">>, !.res = t.rd,
                                           !.rd = None])
          /\ UNCHANGED sessionToken
     ELSE \E r \in Randoms :
            /\ sessionToken' = generateSessionToken(r)
            /\ tasks' = Replace(t, [t EXCEPT !.stack = <<"tk_ret">>,
                                             !.res = generateSessionToken(r),
                                             !.rd = None])
  /\ UNCHANGED <<authData, browserSessionData, sessionValidationInterval,
                 authCheckInProgress, authCheckQueue, now>>

\* The caller has used the token it was given.
tokenUsed(t) ==
  /\ t \in Live /\ Top(t) = "tk_ret"
  /\ tasks' = Without(t)
  /\ UNCHANGED <<storage, sessionValidationInterval, authCheckInProgress,
                 authCheckQueue, now>>

\* lines 219-223: clearSessionData() removes the token; the calls made before
\* it belong to the time before this clearing.
removeSessionData ==
  /\ sessionToken # NoToken
  /\ sessionToken' = NoToken
  /\ browserSessionData' = NoData
  /\ tasks' = BagOfAll(Outlived, tasks)
  /\ UNCHANGED <<authData, sessionValidationInterval, authCheckInProgress,
                 authCheckQueue, now>>

InitToken ==
  /\ now = 0
  /\ authData = NoAuth
  /\ sessionToken \in {NoToken} \cup {generateSessionToken(r) : r \in Randoms}
  /\ browserSessionData = NoData
  /\ sessionValidationInterval = FALSE
  /\ authCheckInProgress = FALSE
  /\ authCheckQueue = <<>>
  /\ tasks = EmptyBag

NextToken ==
  \/ callGetSessionToken
  \/ removeSessionData
  \/ Tick
  \/ \E t \in Live : sessionTokenCallback(t) \/ tokenUsed(t)

SpecToken == InitToken /\ [][NextToken]_vars

\* ------------------------------------------------------------- popup and options pages
\* The pages run utils/dataModels.js's APIService and Options.jsx in their own
\* contexts, over the same chrome.storage.local.

\* Frames in which a page's call is over; `answer` tells how it ended.
PageOver == {"pm_threw", "pm_ret", "ex_done"}

\* part_001 lines 568-569, 486-488: the popup's updateLastActivity calls
\* getSessionToken, which issues its read.
popupUpdateLastActivity ==
  /\ NTasks < MaxTasks
  /\ tasks' = tasks (+) SetToBag({[NewTask("popup", <<"pm_gst">>)
                                    EXCEPT !.rd = sessionToken]})
  /\ UNCHANGED <<storage, sessionValidationInterval, authCheckInProgress,
                 authCheckQueue, now>>

\* part_001 lines 489-496, 571, 516: the read has called back; a token is generated
\* and stored when none was read; makeAuthenticatedRequest issues getAuthData.
popupGetSessionToken(t) ==
  /\ t \in Live /\ Top(t) = "pm_gst"
  /\ sessionToken' = IF t.rd = FALSE THEN TRUE ELSE sessionToken
  /\ tasks' = Replace(t, [t EXCEPT !.stack = <<"pm_got">>,
                                   !.rd = getAuthData.auth_token])
  /\ UNCHANGED <<authData, browserSessionData, sessionValidationInterval,
                 authCheckInProgress, authCheckQueue, now>>

\* part_001 lines 542-566, 587-591, 516: sendWebsiteData, sendSessionData and
\* getWebsiteInfo call makeAuthenticatedRequest, which issues getAuthData.
popupRequest ==
  /\ NTasks < MaxTasks
  /\ tasks' = tasks (+) SetToBag({[NewTask("popup", <<"pm_got">>)
                                    EXCEPT !.rd = getAuthData.auth_token]})
  /\ UNCHANGED <<storage, sessionValidationInterval, authCheckInProgress,
                 authCheckQueue, now>>

\* part_001 lines 516-531: getAuthData has answered; without a token the
\* request throws "Not authenticated", with one the fetch is issued.
popupMakeAuthenticatedRequest(t) ==
  /\ t \in Live /\ Top(t) = "pm_got"
  /\ tasks' = Replace(t, IF t.rd = ""
                         THEN [t EXCEPT !.stack = <<"pm_threw">>, !.rd = None,
                                        !.answer = "noauth"]
                         ELSE [t EXCEPT !.stack = <<"pm_fetch">>, !.rd = None,
                                        !.net = @ + 1])
  /\ UNCHANGED <<storage, sessionValidationInterval, authCheckInProgress,
                 authCheckQueue, now>>

\* part_001 lines 528-539, 430-434: the fetch threw, answered 401 (the popup's
\* clearAuthData removes "authData" and nothing else), or answered otherwise.
popupRequestResponse(t) ==
  /\ t \in Live /\ Top(t) = "pm_fetch"
  /\ \/ /\ tasks' = Replace(t, [t EXCEPT !.stack = <<"pm_threw">>,
                                          !.answer = "neterr"])
        /\ UNCHANGED authData
     \/ /\ authData' = NoAuth
        /\ tasks' = Replace(t, [t EXCEPT !.stack = <<"pm_clr">>, !.answer = "401"])
     \/ /\ tasks' = Replace(t, [t EXCEPT !.stack = <<"pm_ret">>, !.answer = "ok"])
        /\ UNCHANGED authData
  /\ UNCHANGED <<sessionToken, browserSessionData, sessionValidationInterval,
                 authCheckInProgress, authCheckQueue, now>>

\* part_001 lines 535-536: clearAuthData is done; "Authentication expired".
popupRequestUnauthorized(t) ==
  /\ t \in Live /\ Top(t) = "pm_clr"
  /\ tasks' = Replace(t, [t EXCEPT !.stack = <<"pm_threw">>])
  /\ UNCHANGED <<storage, sessionValidationInterval, authCheckInProgress,
                 authCheckQueue, now>>

\* Options.jsx lines 21-24, 31-35, 46-57: the page mounts; loadSessionInfo
\* issues its read of "authData" (the key may be absent, and the bearer then
\* reads "undefined") and checkAuthStatus sends "checkAuth".
optionsMount ==
  /\ NTasks < MaxTasks
  /\ tasks' = tasks (+) SetToBag({[NewTask("options", <<"op_load">>) EXCEPT
                 !.rd = IF authData = NoAuth THEN "undefined"
                        ELSE authData.auth_token]})
  /\ UNCHANGED <<storage, sessionValidationInterval, authCheckInProgress,
                 authCheckQueue, now>>

\* Options.jsx lines 32-34: the background answered "checkAuth"; authStatus is
\* its result.
optionsAuthStatus(t) ==
  /\ t \in Live /\ Top(t) = "op_load"
  /\ \E r \in {AuthOk(ServerUser), AuthFail("invalid_token")} :
       tasks' = Replace(t, [t EXCEPT !.stack = <<"op_idle">>, !.res = r])
  /\ UNCHANGED <<storage, sessionValidationInterval, authCheckInProgress,
                 authCheckQueue, now>>

\* Options.jsx lines 103-114: exportData; unauthenticated it alerts and
\* returns, authenticated it fetches with the bearer token the page loaded.
exportData(t) ==
  /\ t \in Live /\ Top(t) = "op_idle"
  /\ t.res.authenticated
  /\ tasks' = Replace(t, [t EXCEPT !.stack = <<"ex_fetch">>, !.net = @ + 1])
  /\ UNCHANGED <<storage, sessionValidationInterval, authCheckInProgress,
                 authCheckQueue, now>>

\* Options.jsx lines 115-128: the fetch threw (the alert), or answered: the
\* status is never looked at, the body is parsed and offered as a download.
exportResponse(t) ==
  /\ t \in Live /\ Top(t) = "ex_fetch"
  /\ \E status \in {"neterr", "401", "ok"} :
       tasks' = Replace(t, [t EXCEPT !.stack = <<"ex_done">>, !.answer = status])
  /\ UNCHANGED <<storage, sessionValidationInterval, authCheckInProgress,
                 authCheckQueue, now>>

\* The caller has the outcome of its call; the options page is closed.
PageDone(t) ==
  /\ t \in Live /\ Top(t) \in PageOver \cup {"op_idle"}
  /\ tasks' = Without(t)
  /\ UNCHANGED <<storage, sessionValidationInterval, authCheckInProgress,
                 authCheckQueue, now>>

PageStep(t) ==
  \/ popupGetSessionToken(t)
  \/ popupMakeAuthenticatedRequest(t)
  \/ popupRequestResponse(t)
  \/ popupRequestUnauthorized(t)
  \/ optionsAuthStatus(t)
  \/ exportData(t)
  \/ exportResponse(t)
  \/ PageDone(t)

NextPopup ==
  \/ popupUpdateLastActivity
  \/ popupRequest
  \/ optionsMount
  \/ \E t \in Live : PageStep(t)

SpecPopup == Init /\ [][NextPopup]_vars

\* ------------------------------------------------------------- the pages' checkAuthentication
\* utils/dataModels.js (part_001 lines 367-407): the APIService of the popup
\* and the options page has its own checkAuthentication(), without a lock.
\* isa       its calls to is_authenticated
\* res       what it returned

\* part_001 lines 367-368, 409-414: checkAuthentication() issues getAuthData.
popupCheckAuthentication ==
  /\ NTasks < MaxTasks
  /\ tasks' = tasks (+) SetToBag({[NewTask("popupCheck", <<"pc_got">>)
                                    EXCEPT !.rd = getAuthData]})
  /\ UNCHANGED <<storage, sessionValidationInterval, authCheckInProgress,
                 authCheckQueue, now>>

\* part_001 line 375 with `<=`
popupTokenExpired_Inclusive(ad) == ad.expires_at # NoExp /\ ad.expires_at <= now
\* part_001 line 375: authData.expires_at && new Date(expires_at) < new Date()
popupTokenExpired(ad) == ad.expires_at # NoExp /\ ad.expires_at < now

\* The page's check returns r.
PopupReturn(t, r) == [t EXCEPT !.stack = <<"pc_ret">>, !.rd = None, !.res = r]

\* part_001 lines 370-386: getAuthData has answered.  Without a token the
\* check returns no_token; with an expired one it issues clearAuthData;
\* otherwise it calls is_authenticated.
popupPerformCheck(t) ==
  /\ t \in Live /\ Top(t) = "pc_got"
  /\ LET ad == t.rd
         u == [t EXCEPT !.seen = Seen(ad)]
     IN IF ad.auth_token = ""
        THEN /\ tasks' = Replace(t, PopupReturn(u, AuthFail("no_token")))
             /\ UNCHANGED authData
        ELSE IF popupTokenExpired(ad)
        THEN /\ authData' = NoAuth
             /\ tasks' = Replace(t, [u EXCEPT !.stack = <<"pc_clr">>,
                                              !.rd = None,
                                              !.answer = "token_expired"])
        ELSE /\ tasks' = Replace(t, [u EXCEPT !.stack = <<"pc_isauth">>,
                                              !.rd = None,
                                              !.net = @ + 1, !.isa = @ + 1])
             /\ UNCHANGED authData
  /\ UNCHANGED <<sessionToken, browserSessionData, sessionValidationInterval,
                 authCheckInProgress, authCheckQueue, now>>

\* part_001 lines 388-406: is_authenticated threw, answered a non-OK status,
\* or answered authenticated=false or true; updateAuthData reads the current
\* record (line 425).
popupIsAuthenticatedResponse(t) ==
  /\ t \in Live /\ Top(t) = "pc_isauth"
  /\ \/ /\ tasks' = Replace(t, PopupReturn(t, AuthFail("network_error")))
        /\ UNCHANGED authData
     \/ \E reason \in {"server_error", "invalid_token"} :
          /\ authData' = NoAuth
          /\ tasks' = Replace(t, [t EXCEPT !.stack = <<"pc_clr">>,
                                           !.answer = reason])
     \/ /\ tasks' = Replace(t, [t EXCEPT
                 !.stack = <<"pc_upd_got">>,
                 !.rd = [getAuthData EXCEPT !.last_check = now]])
        /\ UNCHANGED authData
  /\ UNCHANGED <<sessionToken, browserSessionData, sessionValidationInterval,
                 authCheckInProgress, authCheckQueue, now>>

\* part_001 lines 376-377, 397-402, 430-434: clearAuthData is done and the
\* check returns its reason.
popupAuthCleared(t) ==
  /\ t \in Live /\ Top(t) = "pc_clr"
  /\ tasks' = Replace(t, PopupReturn(t, AuthFail(t.answer)))
  /\ UNCHANGED <<storage, sessionValidationInterval, authCheckInProgress,
                 authCheckQueue, now>>

\* part_001 lines 394-395, 416-428: updateAuthData sets the merged record;
\* then the check returns {authenticated:true, user}.
popupUpdateAuthData(t) ==
  /\ \/ /\ t \in Live /\ Top(t) = "pc_upd_got"
        /\ authData' = t.rd
        /\ tasks' = Replace(t, [t EXCEPT !.stack = <<"pc_upd_set">>, !.rd = None])
     \/ /\ t \in Live /\ Top(t) = "pc_upd_set"
        /\ tasks' = Replace(t, PopupReturn(t, AuthOk(ServerUser)))
        /\ UNCHANGED authData
  /\ UNCHANGED <<sessionToken, browserSessionData, sessionValidationInterval,
                 authCheckInProgress, authCheckQueue, now>>

\* The caller has the result.
popupCheckDone(t) ==
  /\ t \in Live /\ Top(t) = "pc_ret"
  /\ tasks' = Without(t)
  /\ UNCHANGED <<storage, sessionValidationInterval, authCheckInProgress,
                 authCheckQueue, now>>

\* Time passes, here until every stored expiry is in the past.
LateTick ==
  /\ now <= MaxNow
  /\ now' = now + 1
  /\ UNCHANGED <<storage, sessionValidationInterval, authCheckInProgress,
                 authCheckQueue, tasks>>

PopupCheckStep(t) ==
  \/ popupPerformCheck(t)
  \/ popupIsAuthenticatedResponse(t)
  \/ popupAuthCleared(t)
  \/ popupUpdateAuthData(t)
  \/ popupCheckDone(t)

NextPopupCheck ==
  \/ popupCheckAuthentication
  \/ LateTick
  \/ \E t \in Live : PopupCheckStep(t)

SpecPopupCheck == Init /\ [][NextPopupCheck]_vars

\* ------------------------------------------------------------- the popup's site record
\* Popup.jsx (part_001 lines 657-766) asks the background for the site of the
\* active tab and shows a record.  The background is followed one command at
\* a time, as the envelopes its listener sends.

\* part_001 line 762: milliseconds in an hour; line 765: the age limit in hours.
MsPerHour == 1000 * 60 * 60
FreshHours == 24
MsPerMinute == 1000 * 60
\* The popup's clock, in milliseconds, three days after the epoch.
SiteNow == 3 * 24 * MsPerHour

\* last_crawled_at null, undefined or "" (all falsy).
NoStamp == 0
\* The ages a stored record can have when the popup opens: a minute short of
\* a day, a millisecond short of it, a day, a day and a minute; and a record
\* crawled by a clock a minute ahead.
SiteStamps ==
  { NoStamp,
    SiteNow - (24 * 60 - 1) * MsPerMinute,
    SiteNow - 24 * MsPerHour + 1,
    SiteNow - 24 * MsPerHour,
    SiteNow - (24 * 60 + 1) * MsPerMinute,
    SiteNow + MsPerMinute }

\* part_001 lines 757-766 with an age limit that is included
isLastCrawledFresh_Inclusive(lastCrawledAt) ==
  IF lastCrawledAt = NoStamp THEN FALSE
  ELSE (now - lastCrawledAt) <= FreshHours * MsPerHour
\* part_001 lines 757-766: (now - crawledDate) / (1000 * 60 * 60) < 24, the
\* division by a positive constant carried to the other side
isLastCrawledFresh(lastCrawledAt) ==
  IF lastCrawledAt = NoStamp THEN FALSE
  ELSE (now - lastCrawledAt) < FreshHours * MsPerHour

\* JavaScript's null and undefined.
Null == [null |-> TRUE]
Undefined == [undefined |-> TRUE]
Truthy(v) == v \notin {Null, Undefined}

\* Site records: the server's, the one the content script scraped, the
\* popup's default when the content script does not answer (part_001 lines 708-716)
\* and its fallback when the tab cannot be had (lines 744-752).
SiteRecord(name, stamp) == [name |-> name, last_crawled_at |-> stamp]
ScrapedData == SiteRecord("page", SiteNow)
DefaultData == SiteRecord("domain", SiteNow)
FallbackData == SiteRecord("domain", NoStamp)
\* The JSON body of an answer whose status is not OK.
ErrorBody == [error |-> "status"]

\* siteData.last_crawled_at (undefined on a body without the field)
LastCrawledAt(data) ==
  IF "last_crawled_at" \in DOMAIN data THEN data.last_crawled_at ELSE NoStamp

\* part_001 line 733: response.data.site || response.data
SiteOf(data) == IF "site" \in DOMAIN data THEN data.site ELSE data

\* background.js lines 612, 629
NotAuthenticated == [success |-> FALSE, error |-> "Not authenticated"]

\* background.js lines 608-640: the sendResponse calls of a guarded command,
\* in order.  `authenticated` is what checkAuthentication() reported, `threw`
\* whether the API method threw (no token, fetch failure, 401, unparsable
\* body), `data` the parsed body it returned otherwise, whatever the status.
\* The first `then` returns undefined after answering an unauthenticated
\* caller, and the second `then` runs on that value.
guardedResponses(authenticated, threw, data) ==
  IF ~authenticated
  THEN <<NotAuthenticated, [success |-> TRUE, data |-> Undefined]>>
  ELSE IF threw THEN <<[success |-> FALSE, error |-> "threw"]>>
  ELSE <<[success |-> TRUE, data |-> data]>>

\* The envelope the sender's callback gets: the first one sent.
Received(responses) == Head(responses)

\* What GET sites/<domain>/available can answer with.
AvailableBodies ==
  {Null, ErrorBody} \cup {SiteRecord("server", ts) : ts \in SiteStamps}
\* What POST sites/<domain> can answer with.
WebsiteInfoBodies ==
  {ErrorBody, SiteRecord("server", SiteNow), [site |-> SiteRecord("server", SiteNow)]}

\* part_001 lines 657-660: loadCurrentSiteData queries the active tab.
\* rd        the envelope of siteAvailable
\* seen      what the lookup came to: "fresh", "stale", "norecord", "failed"
\* isa, net  getWebsiteData requests to the page; getWebsiteInfo messages
\* fetched   websiteData, the page data collected
\* posted    how the upsert went: "unauth", "threw", "notok", "ok"
\* sent      the envelopes the listener sent for the last command
\* res       currentSite;  answer: the error shown
loadCurrentSiteData ==
  /\ NTasks < MaxPopups
  /\ tasks' = tasks (+) SetToBag({NewTask("site", <<"ls_tab">>)})
  /\ UNCHANGED <<storage, sessionValidationInterval, authCheckInProgress,
                 authCheckQueue, now>>

\* part_001 lines 660-672, 696-698: the tab query has answered: it failed,
\* the page cannot be accessed, or "siteAvailable" is sent.
activeTab(t) ==
  /\ t \in Live /\ Top(t) = "ls_tab"
  /\ \E o \in {"Failed to load site data", "Cannot access this page", ""} :
       tasks' = Replace(t, IF o # ""
                           THEN [t EXCEPT !.stack = <<"shown">>, !.answer = o]
                           ELSE [t EXCEPT !.stack = <<"ls_avail">>])
  /\ UNCHANGED <<storage, sessionValidationInterval, authCheckInProgress,
                 authCheckQueue, now>>

\* part_001 lines 675-692: what the lookup came to.
LookupOutcome(availabilityResponse) ==
  IF availabilityResponse.success /\ Truthy(availabilityResponse.data)
  THEN IF isLastCrawledFresh(LastCrawledAt(availabilityResponse.data))
       THEN "fresh" ELSE "stale"
  ELSE IF availabilityResponse.success THEN "norecord" ELSE "failed"

\* part_001 line 679 without the test of freshness
UsedDirectly_AnyRecord(outcome) == outcome \in {"fresh", "stale"}
\* part_001 lines 679-682: the record of the lookup is shown as it is
UsedDirectly(outcome) == outcome = "fresh"

\* part_001 lines 673-693, background.js lines 608-622: the listener has
\* answered "siteAvailable".
siteAvailableResponse(t) ==
  /\ t \in Live /\ Top(t) = "ls_avail"
  /\ \E authenticated \in BOOLEAN, threw \in BOOLEAN, data \in AvailableBodies :
       LET responses == guardedResponses(authenticated, threw, data)
           availabilityResponse == Received(responses)
           outcome == LookupOutcome(availabilityResponse)
           u == [t EXCEPT !.rd = availabilityResponse, !.sent = responses,
                          !.seen = outcome]
       IN tasks' = Replace(t, IF UsedDirectly(outcome)
                              THEN [u EXCEPT !.stack = <<"shown">>,
                                             !.res = availabilityResponse.data]
                              ELSE [u EXCEPT !.stack = <<"rf_tab">>])
  /\ UNCHANGED <<storage, sessionValidationInterval, authCheckInProgress,
                 authCheckQueue, now>>

\* part_001 lines 701-707, 741-754: refreshSiteData's tab query has answered:
\* "getWebsiteData" is sent to the page, or the fallback is shown.
refreshSiteData(t) ==
  /\ t \in Live /\ Top(t) = "rf_tab"
  /\ \E tab \in BOOLEAN :
       tasks' = Replace(t, IF tab
                           THEN [t EXCEPT !.stack = <<"rf_scan">>, !.isa = @ + 1]
                           ELSE [t EXCEPT !.stack = <<"shown">>,
                                          !.res = FallbackData])
  /\ UNCHANGED <<storage, sessionValidationInterval, authCheckInProgress,
                 authCheckQueue, now>>

\* part_001 lines 707-729: the page has answered (or there is no content
\* script to answer); "getWebsiteInfo" is sent with the data collected.
contentResponse(t) ==
  /\ t \in Live /\ Top(t) = "rf_scan"
  /\ \E websiteData \in {ScrapedData, DefaultData} :
       tasks' = Replace(t, [t EXCEPT !.stack = <<"rf_upsert">>,
                                     !.fetched = websiteData, !.net = @ + 1])
  /\ UNCHANGED <<storage, sessionValidationInterval, authCheckInProgress,
                 authCheckQueue, now>>

\* part_001 lines 730-738, background.js lines 625-640, 450-464: the listener
\* has answered "getWebsiteInfo".
websiteInfoResponse(t) ==
  /\ t \in Live /\ Top(t) = "rf_upsert"
  /\ \E authenticated \in BOOLEAN, o \in {"threw", "notok", "ok"},
        body \in WebsiteInfoBodies :
       LET responses == guardedResponses(authenticated, o = "threw", body)
           response == Received(responses)
       IN /\ (o = "notok") = (body = ErrorBody)
          /\ tasks' = Replace(t, [t EXCEPT
                 !.stack = <<"shown">>, !.sent = responses,
                 !.posted = IF authenticated THEN o ELSE "unauth",
                 !.res = IF response.success THEN SiteOf(response.data)
                         ELSE t.fetched])
  /\ UNCHANGED <<storage, sessionValidationInterval, authCheckInProgress,
                 authCheckQueue, now>>

\* The popup is closed.
popupClosed(t) ==
  /\ t \in Live /\ Top(t) = "shown"
  /\ tasks' = Without(t)
  /\ UNCHANGED <<storage, sessionValidationInterval, authCheckInProgress,
                 authCheckQueue, now>>

InitSite ==
  /\ now = SiteNow
  /\ authData \in StoredAuth
  /\ sessionToken = FALSE
  /\ browserSessionData = NoData
  /\ sessionValidationInterval = FALSE
  /\ authCheckInProgress = FALSE
  /\ authCheckQueue = <<>>
  /\ tasks = EmptyBag

SiteStep(t) ==
  \/ activeTab(t)
  \/ siteAvailableResponse(t)
  \/ refreshSiteData(t)
  \/ contentResponse(t)
  \/ websiteInfoResponse(t)
  \/ popupClosed(t)

NextSite ==
  \/ loadCurrentSiteData
  \/ \E t \in Live : SiteStep(t)

SpecSite == InitSite /\ [][NextSite]_vars

\* ------------------------------------------------------------- guarded commands
\* lines 608-708: the commands that call checkAuthentication() and then an
\* API method.  Of a command's task, from the callback of its check on:
\* net       the requests its API method has sent
\* sent      the envelopes sendResponse was called with
GuardedCommands == {"siteAvailable", "getWebsiteInfo", "updateActivity",
                    "getUserSessions", "deactivateOtherSessions",
                    "validateBrowserSession"}
\* lines 228, 479: the methods that begin with getSessionToken()
TokenFirst == {"updateActivity", "deactivateOtherSessions"}

\* No guarded command is in flight.
NoCommand ==
  /\ \A t \in Live : t.kind \notin GuardedCommands
  /\ \A i \in 1 .. Len(authCheckQueue) :
       authCheckQueue[i].kind \notin GuardedCommands

\* lines 609-610, 626-627, ...: a guarded command arrives.  One command is
\* followed at a time, among the validations the checks have spawned.
onGuardedCommand ==
  /\ NoCommand
  /\ \E c \in GuardedCommands : checkAuthentication(c)

\* lines 612, 629, ... without the test
CallsOperation_Always(authStatus) == TRUE
\* lines 612-617, 629-634, ...: the API method is called on this result
CallsOperation(authStatus) == IsAuthenticated(authStatus)

\* The command's handler has answered (lines 613, 619-622).
Respond(t, authenticated, threw) ==
  [t EXCEPT !.stack = <<"g_done">>, !.rd = None,
            !.sent = guardedResponses(authenticated, threw, t.kind)]

\* lines 611-618: the command's check has resolved.  An unauthenticated
\* caller is answered; otherwise the API method is called: it issues
\* getSessionToken's read (lines 228, 479, 190), or makeAuthenticatedRequest's
\* getAuthData (line 396).  A rejected check goes to `catch`.
guardedCallback(t) ==
  /\ t \in Live /\ Top(t) = "resolved" /\ t.kind \in GuardedCommands
  /\ FirstResolved(t)
  /\ LET u == [t EXCEPT !.net = 0, !.isa = 0] IN
     IF t.res = Rejected
     THEN tasks' = Replace(t, Respond(u, TRUE, TRUE))
     ELSE IF ~CallsOperation(t.res)
     THEN tasks' = Replace(t, Respond(u, FALSE, FALSE))
     ELSE IF t.kind = "validateBrowserSession"
     THEN tasks' = Replace(t, CallSession(u, <<"g_v">>))
     ELSE IF t.kind \in TokenFirst
     THEN tasks' = Replace(t, [u EXCEPT !.stack = <<"g_gst">>,
                                        !.rd = sessionToken])
     ELSE tasks' = Replace(t, [u EXCEPT !.stack = <<"g_got">>,
                                        !.rd = getAuthData.auth_token])
  /\ UNCHANGED <<storage, sessionValidationInterval, authCheckInProgress,
                 authCheckQueue, now>>

\* lines 374-386, 396: getSessionToken's read has called back; then
\* makeAuthenticatedRequest issues getAuthData.
guardedGetSessionToken(t) ==
  /\ At(t, "g_gst")
  /\ sessionToken' = IF t.rd = FALSE THEN TRUE ELSE sessionToken
  /\ tasks' = Replace(t, [t EXCEPT !.stack = <<"g_got">>,
                                   !.rd = getAuthData.auth_token])
  /\ UNCHANGED <<authData, browserSessionData, sessionValidationInterval,
                 authCheckInProgress, authCheckQueue, now>>

\* lines 396-412: getAuthData has answered; without a token the method throws
\* "Not authenticated" and the handler answers, with one the request is sent.
guardedRequest(t) ==
  /\ At(t, "g_got")
  /\ IF t.rd = ""
     THEN tasks' = Replace(t, Respond(t, TRUE, TRUE))
     ELSE tasks' = Replace(t, [t EXCEPT !.stack = <<"g_fetch">>, !.rd = None,
                                        !.net = @ + 1])
  /\ UNCHANGED <<storage, sessionValidationInterval, authCheckInProgress,
                 authCheckQueue, now>>

\* lines 409-421, 240-247: the request threw, was refused with 401, or was
\* answered; updateLastActivity reads the stored session data after an OK
\* answer, every other method parses the body and the handler answers.
guardedResponse(t) ==
  /\ At(t, "g_fetch")
  /\ \/ /\ tasks' = Replace(t, Respond(t, TRUE, TRUE))
        /\ UNCHANGED <<storage, sessionValidationInterval>>
     \/ /\ tasks' = Replace(t, Respond(t, TRUE, FALSE))
        /\ UNCHANGED <<storage, sessionValidationInterval>>
     \/ /\ t.kind = "updateActivity"
        /\ tasks' = Replace(t, [t EXCEPT !.stack = <<"g_upd_got">>,
                                         !.rd = getStoredSessionData])
        /\ UNCHANGED <<storage, sessionValidationInterval>>
     \/ /\ clearAuthData
        /\ tasks' = Replace(t, [t EXCEPT !.stack = <<"g_clr_auth">>])
        /\ UNCHANGED <<sessionToken, browserSessionData>>
  /\ UNCHANGED <<authCheckInProgress, authCheckQueue, now>>

\* lines 417-419: after a 401, clearSessionData, then the method throws.
guardedUnauthorized(t) ==
  /\ \/ /\ At(t, "g_clr_auth")
        /\ clearSessionData
        /\ tasks' = Replace(t, [t EXCEPT !.stack = <<"g_clr_sess">>])
        /\ UNCHANGED authData
     \/ /\ At(t, "g_clr_sess")
        /\ tasks' = Replace(t, Respond(t, TRUE, TRUE))
        /\ UNCHANGED storage
  /\ UNCHANGED <<sessionValidationInterval, authCheckInProgress,
                 authCheckQueue, now>>

\* lines 211-218, 242-247: updateBrowserSessionData sets the merged record
\* (last_activity_update is not followed); then the body is parsed and the
\* handler answers.
guardedActivityUpdated(t) ==
  /\ \/ /\ At(t, "g_upd_got")
        /\ browserSessionData' = t.rd
        /\ tasks' = Replace(t, [t EXCEPT !.stack = <<"g_upd_set">>, !.rd = None])
        /\ UNCHANGED <<authData, sessionToken>>
     \/ /\ At(t, "g_upd_set")
        /\ tasks' = Replace(t, Respond(t, TRUE, FALSE))
        /\ UNCHANGED storage
  /\ UNCHANGED <<sessionValidationInterval, authCheckInProgress,
                 authCheckQueue, now>>

\* The handler's promise chain is over.
guardedDone(t) ==
  /\ t \in Live /\ Top(t) = "g_done"
  /\ FirstResolved(t)
  /\ tasks' = Without(t)
  /\ UNCHANGED <<storage, sessionValidationInterval, authCheckInProgress,
                 authCheckQueue, now>>

GuardedStep(t) ==
  \/ CheckStep(t)
  \/ guardedCallback(t)
  \/ guardedGetSessionToken(t)
  \/ guardedRequest(t)
  \/ guardedResponse(t)
  \/ guardedUnauthorized(t)
  \/ guardedActivityUpdated(t)
  \/ guardedDone(t)

\* The clock stands still: a stored token stays unexpired.
NextGuarded ==
  \/ onGuardedCommand
  \/ \E t \in Live : GuardedStep(t)

SpecGuarded == Init /\ [][NextGuarded]_vars

\* ------------------------------------------------------------- tab updates
\* lines 520-571: chrome.tabs.onUpdated.  Of a tab's task, from the callback
\* of its check on:
\* answer    how updateLastActivity went: "threw", "401", "notok" (a non-OK
\*           status), "ok"
\* fetched   what the content script answered getWebsiteData with
\* net       the POSTs to sites that were sent
NoResponse == [response |-> "none"]
\* content.js: websiteData with or without tos_url and privacy_policy_url
WebsiteData == [tos_url : BOOLEAN, privacy_policy_url : BOOLEAN]

\* No tab update is being handled.
NoTab ==
  /\ \A t \in Live : t.kind # "tab"
  /\ \A i \in 1 .. Len(authCheckQueue) : authCheckQueue[i].kind # "tab"

\* lines 521-527: a tab has completed loading.  For a chrome:// URL the
\* listener returns; otherwise it calls checkAuthentication().
onTabUpdated ==
  /\ NoTab
  /\ \/ checkAuthentication("tab")
     \/ /\ ~MicrotaskPending
        /\ NTasks < MaxTasks
        /\ tasks' = tasks (+) SetToBag({[NewTask("tab", <<"t_done">>)
                                          EXCEPT !.seen = "chrome"]})
        /\ UNCHANGED <<storage, sessionValidationInterval,
                       authCheckInProgress, authCheckQueue, now>>

\* The listener is over for this tab (lines 531, 567-569), with what
\* updateLastActivity came to.
TabOver(t, activity) ==
  [t EXCEPT !.stack = <<"t_done">>, !.rd = None, !.answer = activity]

\* lines 529-539, 228: the tab's check has resolved; an authenticated result
\* goes on to updateLastActivity(), which issues getSessionToken's read.
tabCallback(t) ==
  /\ t \in Live /\ Top(t) = "resolved" /\ t.kind = "tab"
  /\ FirstResolved(t)
  /\ LET u == [t EXCEPT !.net = 0, !.isa = 0, !.answer = "", !.fetched = None]
     IN IF ~IsAuthenticated(t.res)
        THEN tasks' = Replace(t, TabOver(u, ""))
        ELSE tasks' = Replace(t, [u EXCEPT !.stack = <<"t_gst">>,
                                           !.rd = sessionToken])
  /\ UNCHANGED <<storage, sessionValidationInterval, authCheckInProgress,
                 authCheckQueue, now>>

\* lines 374-386, 396: getSessionToken's read has called back; then
\* makeAuthenticatedRequest issues getAuthData.
tabGetSessionToken(t) ==
  /\ At(t, "t_gst")
  /\ sessionToken' = IF t.rd = FALSE THEN TRUE ELSE sessionToken
  /\ tasks' = Replace(t, [t EXCEPT !.stack = <<"t_got", "t_activity">>,
                                   !.rd = getAuthData.auth_token])
  /\ UNCHANGED <<authData, browserSessionData, sessionValidationInterval,
                 authCheckInProgress, authCheckQueue, now>>

\* lines 396-412: getAuthData has answered, for the PATCH of the activity or
\* for the POST to sites; without a token makeAuthenticatedRequest throws,
\* into the listener's catch (567) or sendWebsiteData's (560).
tabRequest(t) ==
  /\ At(t, "t_got")
  /\ IF t.rd = ""
     THEN tasks' = Replace(t, TabOver(t, IF t.stack[2] = "t_activity"
                                         THEN "threw" ELSE t.answer))
     ELSE tasks' = Replace(t, [t EXCEPT
              !.stack = <<"t_fetch", t.stack[2]>>, !.rd = None,
              !.net = IF t.stack[2] = "t_sites" THEN @ + 1 ELSE @])
  /\ UNCHANGED <<storage, sessionValidationInterval, authCheckInProgress,
                 authCheckQueue, now>>

\* lines 240-247: updateLastActivity returns the parsed body of the answer,
\* whatever its status (only a 401 throws, lines 414-419)
ActivityReturns(status) == status \in {"ok", "notok"}

\* line 542: chrome.tabs.sendMessage(getWebsiteData)
ScanRequested(t, activity) ==
  [t EXCEPT !.stack = <<"t_scan">>, !.rd = None, !.answer = activity]

\* lines 409-421, 240-247, 431: the request threw, was refused with 401, or
\* was answered.  After the PATCH: an OK answer makes updateLastActivity read
\* the stored session data; a body that does not parse throws.  After the
\* POST to sites the listener is over.
tabResponse(t) ==
  /\ At(t, "t_fetch")
  /\ \/ /\ clearAuthData
        /\ tasks' = Replace(t, [t EXCEPT !.stack = <<"t_clr_auth", t.stack[2]>>])
        /\ UNCHANGED <<sessionToken, browserSessionData>>
     \/ /\ t.stack[2] = "t_sites"
        /\ tasks' = Replace(t, TabOver(t, t.answer))
        /\ UNCHANGED <<storage, sessionValidationInterval>>
     \/ /\ t.stack[2] = "t_activity"
        /\ \E status \in {"threw", "notok", "ok"}, parses \in BOOLEAN :
             IF status = "threw" \/ ~parses \/ ~ActivityReturns(status)
             THEN tasks' = Replace(t, TabOver(t, "threw"))
             ELSE IF status = "ok"
             THEN tasks' = Replace(t, [t EXCEPT !.stack = <<"t_upd_got">>,
                                                !.rd = getStoredSessionData])
             ELSE tasks' = Replace(t, ScanRequested(t, status))
        /\ UNCHANGED <<storage, sessionValidationInterval>>
  /\ UNCHANGED <<authCheckInProgress, authCheckQueue, now>>

\* lines 417-419: after a 401, clearSessionData, then the request throws.
tabUnauthorized(t) ==
  /\ \/ /\ At(t, "t_clr_auth")
        /\ clearSessionData
        /\ tasks' = Replace(t, [t EXCEPT !.stack = <<"t_clr_sess", t.stack[2]>>])
        /\ UNCHANGED authData
     \/ /\ At(t, "t_clr_sess")
        /\ tasks' = Replace(t, TabOver(t, IF t.stack[2] = "t_activity"
                                           THEN "401" ELSE t.answer))
        /\ UNCHANGED storage
  /\ UNCHANGED <<sessionValidationInterval, authCheckInProgress,
                 authCheckQueue, now>>

\* lines 211-218, 242-247, 542: updateBrowserSessionData sets the merged
\* record (last_activity_update is not followed); then the body is parsed,
\* updateLastActivity returns and the page is asked for its data.
tabActivityUpdated(t) ==
  /\ \/ /\ At(t, "t_upd_got")
        /\ browserSessionData' = t.rd
        /\ tasks' = Replace(t, [t EXCEPT !.stack = <<"t_upd_set">>, !.rd = None])
        /\ UNCHANGED <<authData, sessionToken>>
     \/ /\ At(t, "t_upd_set")
        /\ \E parses \in BOOLEAN :
             tasks' = Replace(t, IF parses THEN ScanRequested(t, "ok")
                                 ELSE TabOver(t, "threw"))
        /\ UNCHANGED storage
  /\ UNCHANGED <<sessionValidationInterval, authCheckInProgress,
                 authCheckQueue, now>>

\* lines 548-550
hasPolicy(websiteData) == websiteData.tos_url \/ websiteData.privacy_policy_url

\* lines 545-563, 427, 396: the page has answered, or there is no answer;
\* with a policy link sendWebsiteData() is called and issues getAuthData.
tabScanResponse(t) ==
  /\ At(t, "t_scan")
  /\ \E response \in {NoResponse} \cup WebsiteData :
       LET u == [t EXCEPT !.fetched = response] IN
       IF response # NoResponse /\ hasPolicy(response)
       THEN tasks' = Replace(t, [u EXCEPT !.stack = <<"t_got", "t_sites">>,
                                          !.rd = getAuthData.auth_token])
       ELSE tasks' = Replace(t, TabOver(u, t.answer))
  /\ UNCHANGED <<storage, sessionValidationInterval, authCheckInProgress,
                 authCheckQueue, now>>

\* The listener and its callbacks have returned.
tabDone(t) ==
  /\ t \in Live /\ Top(t) = "t_done"
  /\ FirstResolved(t)
  /\ tasks' = Without(t)
  /\ UNCHANGED <<storage, sessionValidationInterval, authCheckInProgress,
                 authCheckQueue, now>>

TabStep(t) ==
  \/ CheckStep(t)
  \/ tabCallback(t)
  \/ tabGetSessionToken(t)
  \/ tabRequest(t)
  \/ tabResponse(t)
  \/ tabUnauthorized(t)
  \/ tabActivityUpdated(t)
  \/ tabScanResponse(t)
  \/ tabDone(t)

\* The clock stands still: a stored token stays unexpired.
NextTab ==
  \/ onTabUpdated
  \/ \E t \in Live : TabStep(t)

SpecTab == Init /\ [][NextTab]_vars

\* ------------------------------------------------------------- the page scanner
\* content.js: WebsiteDataExtractor.findPolicyLink over a document.  A
\* document is the sequence of its a[href] elements in document order.  A
\* link is told by the selectors its href satisfies and by whether its text
\* and its href match one of the text patterns.

\* content.js lines 77-80: the selectors of findPrivacyPolicyLink, in order.
Selectors == <<"privacy", "policy">>

Links == [sel : SUBSET (1 .. Len(Selectors)), text : BOOLEAN, href : BOOLEAN]
Documents == UNION {[1 .. n -> Links] : n \in 0 .. MaxLinks}

\* The returned URL of the i-th link, and the empty string.
Href(i) == <<i>>
EmptyString == <<>>

\* lines 114-126 without the test of the href
isValidPolicyLink_TextOnly(link) == link.text
\* lines 114-126: pattern.test(text) || pattern.test(href), for some pattern
isValidPolicyLink(link) == link.text \/ link.href

\* document.querySelectorAll(selector): the positions of the links that
\* satisfy the s-th selector, from position i on, in document order.
RECURSIVE querySelectorAll(_, _, _)
querySelectorAll(doc, s, i) ==
  IF i > Len(doc) THEN <<>>
  ELSE (IF s \in doc[i].sel THEN <<i>> ELSE <<>>) \o querySelectorAll(doc, s, i + 1)

\* document.querySelectorAll('a[href]') (line 104)
allLinks(doc) == [i \in 1 .. Len(doc) |-> i]

\* lines 96-100, 105-109: the inner loop; 0 when it ends without a return.
RECURSIVE firstValid(_, _)
firstValid(doc, links) ==
  IF links = <<>> THEN 0
  ELSE IF isValidPolicyLink(doc[Head(links)]) THEN Head(links)
  ELSE firstValid(doc, Tail(links))

\* lines 94-111: the loop over the selectors from the s-th on, then the
\* fallback over all links, then ''.
RECURSIVE findPolicyLink(_, _)
findPolicyLink(doc, s) ==
  IF s <= Len(Selectors)
  THEN LET link == firstValid(doc, querySelectorAll(doc, s, 1))
       IN IF link # 0 THEN Href(link) ELSE findPolicyLink(doc, s + 1)
  ELSE LET link == firstValid(doc, allLinks(doc))
       IN IF link # 0 THEN Href(link) ELSE EmptyString

\* lines 4-20: the content script is started in a page.
pageLoaded ==
  /\ tasks = EmptyBag
  /\ \E doc \in Documents :
       tasks' = SetToBag({[NewTask("page", <<"cs_idle">>) EXCEPT !.rd = doc]})
  /\ UNCHANGED <<storage, sessionValidationInterval, authCheckInProgress,
                 authCheckQueue, now>>

\* lines 13-15, 23-33, 76-90: "getWebsiteData" is answered;
\* privacy_policy_url is findPrivacyPolicyLink().
extractWebsiteData(t) ==
  /\ t \in Live /\ Top(t) = "cs_idle"
  /\ tasks' = Replace(t, [t EXCEPT !.stack = <<"cs_sent">>,
                                   !.res = findPolicyLink(t.rd, 1)])
  /\ UNCHANGED <<storage, sessionValidationInterval, authCheckInProgress,
                 authCheckQueue, now>>

\* The page is left.
pageUnloaded(t) ==
  /\ t \in Live /\ t.kind = "page"
  /\ tasks' = Without(t)
  /\ UNCHANGED <<storage, sessionValidationInterval, authCheckInProgress,
                 authCheckQueue, now>>

NextScan ==
  \/ pageLoaded
  \/ \E t \in Live : extractWebsiteData(t) \/ pageUnloaded(t)

\* The content script reads and writes nothing of the extension's storage.
InitScan ==
  /\ now = 0
  /\ authData = NoAuth
  /\ sessionToken = FALSE
  /\ browserSessionData = NoData
  /\ sessionValidationInterval = FALSE
  /\ authCheckInProgress = FALSE
  /\ authCheckQueue = <<>>
  /\ tasks = EmptyBag

SpecScan == InitScan /\ [][NextScan]_vars

\* ------------------------------------------------------------- the revalidation timers, one by one
\* Above, sessionValidationInterval is followed as set or not.  Here it holds
\* the id setInterval returned, and every interval created is kept in
\* `tasks`, ticking or cleared, with its id in `rd`.

Interval(id, state) == [NewTask("interval", <<state>>) EXCEPT !.rd = id]
Created == {t \in Live : t.kind = "interval"}
Ticking == {t.rd : t \in {c \in Created : Top(c) = "ticking"}}
\* setInterval's next id
NextId == [interval |-> Cardinality(Created) + 1]

\* clearInterval(id) for the ids given: a ticking interval stops, any other
\* id is ignored.
clearInterval(bag, ids) ==
  (bag (-) SetToBag({Interval(i, "ticking") : i \in ids \cap Ticking}))
  (+) SetToBag({Interval(i, "cleared") : i \in ids \cap Ticking})

\* lines 256-258 left out
ClearedOnStart_None(current) == {}
\* lines 256-258: the interval startSessionValidation clears first
ClearedOnStart(current) == IF current # Null THEN {current} ELSE {}

\* lines 255-267: startSessionValidation() on top of the calls in `bag`
startSessionValidation(bag) ==
  /\ Cardinality(Created) < MaxIntervals
  /\ tasks' = clearInterval(bag, ClearedOnStart(sessionValidationInterval))
               (+) SetToBag({Interval(NextId, "ticking")})
  /\ sessionValidationInterval' = NextId

\* lines 270-272: the interval stopSessionValidation clears
ClearedOnStop(current) == IF current # Null THEN {current} ELSE {}

\* lines 269-274: stopSessionValidation() on top of the calls in `bag`
stopSessionValidation(bag) ==
  /\ tasks' = clearInterval(bag, ClearedOnStop(sessionValidationInterval))
  /\ sessionValidationInterval' = Null

\* lines 502-504, 514-516: a listener starts the timer.
onStartSessionValidation ==
  /\ startSessionValidation(tasks)
  /\ UNCHANGED <<storage, authCheckInProgress, authCheckQueue, now>>

\* lines 292, 757-759: logout or the sweep stops the timer.
onStopSessionValidation ==
  /\ sessionValidationInterval # Null
  /\ stopSessionValidation(tasks)
  /\ UNCHANGED <<storage, authCheckInProgress, authCheckQueue, now>>

\* lines 314-318: setAuthData(rec) is called; chrome.storage.local.set stores
\* rec or fails with runtime.lastError.
callSetAuthData ==
  /\ \A t \in Live : t.kind # "setAuthData"
  /\ \E p \in AuthPayloads, saved \in BOOLEAN :
       /\ authData' = IF saved
                      THEN AuthRecord(p.auth_token, p.user_id, p.expires_at, now)
                      ELSE authData
       /\ tasks' = tasks (+) SetToBag({[NewTask("setAuthData",
                                          <<IF saved THEN "sad_ok" ELSE "sad_fail">>)
                                         EXCEPT !.rd = p.auth_token]})
  /\ UNCHANGED <<sessionToken, browserSessionData, sessionValidationInterval,
                 authCheckInProgress, authCheckQueue, now>>

\* line 331 without the test
StartsValidation_Always(auth_token) == TRUE
\* line 331: the timer is started for a record with this token
StartsValidation(auth_token) == auth_token # ""

\* lines 318-335: the set has called back.  A failure rejects the promise;
\* otherwise the timer is started when the record has a token, and the
\* promise resolves.
setAuthDataCallback(t) ==
  /\ t \in Live /\ t.kind = "setAuthData"
  /\ \/ /\ Top(t) = "sad_fail"
        /\ tasks' = Replace(t, [t EXCEPT !.stack = <<"sad_done">>,
                                         !.res = Rejected])
        /\ UNCHANGED sessionValidationInterval
     \/ /\ Top(t) = "sad_ok"
        /\ LET u == [t EXCEPT !.stack = <<"sad_done">>, !.res = Undefined]
           IN IF StartsValidation(t.rd)
              THEN startSessionValidation(Replace(t, u))
              ELSE tasks' = Replace(t, u) /\ UNCHANGED sessionValidationInterval
  /\ UNCHANGED <<storage, authCheckInProgress, authCheckQueue, now>>

\* The caller of setAuthData() has its answer.
setAuthDataSettled(t) ==
  /\ t \in Live /\ t.kind = "setAuthData" /\ Top(t) = "sad_done"
  /\ tasks' = Without(t)
  /\ UNCHANGED <<storage, sessionValidationInterval, authCheckInProgress,
                 authCheckQueue, now>>

\* lines 346-351: clearAuthData() stops the timer and removes "authData".
onClearAuthData ==
  /\ authData # NoAuth \/ sessionValidationInterval # Null
  /\ stopSessionValidation(tasks)
  /\ authData' = NoAuth
  /\ UNCHANGED <<sessionToken, browserSessionData, authCheckInProgress,
                 authCheckQueue, now>>

\* lines 260-261: a ticking interval fires and its callback awaits
\* checkAuthentication().
intervalFires ==
  /\ Ticking # {}
  /\ \A t \in Live : t.kind # "fired"
  /\ tasks' = tasks (+) SetToBag({NewTask("fired", <<"cb_check">>)})
  /\ UNCHANGED <<storage, sessionValidationInterval, authCheckInProgress,
                 authCheckQueue, now>>

\* lines 262-265: the check has resolved; stopSessionValidation() on an
\* unauthenticated result.
firedCallback(t) ==
  /\ t \in Live /\ t.kind = "fired"
  /\ \E authStatus \in {AuthOk(ServerUser), AuthFail("invalid_token")} :
       IF StopOnResult(authStatus)
       THEN stopSessionValidation(Without(t))
       ELSE tasks' = Without(t) /\ UNCHANGED sessionValidationInterval
  /\ UNCHANGED <<storage, authCheckInProgress, authCheckQueue, now>>

\* lines 8-12: the constructor leaves sessionValidationInterval null.
InitIntervals ==
  /\ now = 0
  /\ authData \in StoredAuth
  /\ sessionToken = FALSE
  /\ browserSessionData = NoData
  /\ sessionValidationInterval = Null
  /\ authCheckInProgress = FALSE
  /\ authCheckQueue = <<>>
  /\ tasks = EmptyBag

NextIntervals ==
  \/ onStartSessionValidation
  \/ onStopSessionValidation
  \/ callSetAuthData
  \/ onClearAuthData
  \/ intervalFires
  \/ \E t \in Live : \/ setAuthDataCallback(t)
                      \/ setAuthDataSettled(t)
                      \/ firedCallback(t)

SpecIntervals == InitIntervals /\ [][NextIntervals]_vars

\* ------------------------------------------------------------- SessionManager
\* utils/sessionUtils.js (part_001 lines 7-253): a page's SessionManager.  The
\* object is one record among the tasks:
\* rd        checkInterval
\* res       currentSession
\* fetched   listeners, in the order they were added
\* net       the listeners ever added (the next one's identity)
\* answer    the event notifyListeners was last called with
\* sent      the callbacks that call invoked, in order
\* seen      the method that last changed the object
\* A listener's callback is opaque: it returns or throws, and does not call
\* back into the manager.
Events == {"sessionLoaded", "sessionExpired"}
\* The events the pages' listeners are registered for: one of the events
\* notified, and every event.
Registered == {"sessionExpired", "*"}
Listener(id, event, throws) == [id |-> id, event |-> event, throws |-> throws]
SessionInfo == [session |-> "s1"]

Manager == CHOOSE m \in Live : m.kind = "manager"
\* The calls of the manager's methods that are waiting for the background.
ManagerCalls == {t \in Live : t.kind \in {"init", "fired"}}

\* line 160: the listeners a notification is for
ListensTo(listener, event) == listener.event = event \/ listener.event = "*"

\* lines 161-165 without the try/catch
CatchesListenerError_Never == FALSE
\* lines 161-165: a throwing callback is caught
CatchesListenerError == TRUE

\* lines 158-168: notifyListeners(event) over the listeners ls: the callbacks
\* invoked, in order.  An error that is not caught ends the forEach.
RECURSIVE Invoked(_, _)
Invoked(ls, event) ==
  IF ls = <<>> THEN <<>>
  ELSE IF ~ListensTo(Head(ls), event) THEN Invoked(Tail(ls), event)
  ELSE IF Head(ls).throws /\ ~CatchesListenerError THEN <<Head(ls).id>>
  ELSE <<Head(ls).id>> \o Invoked(Tail(ls), event)

notifyListeners(m, event) ==
  [m EXCEPT !.answer = event, !.sent = Invoked(m.fetched, event)]

\* lines 118-120 left out
ClearedOnRestart_None(current) == {}
\* lines 118-120: the interval startPeriodicCheck clears first
ClearedOnRestart(current) == IF current # Null THEN {current} ELSE {}

\* lines 117-133: startPeriodicCheck() by manager m, on top of `bag`
startPeriodicCheck(m, bag) ==
  clearInterval(bag, ClearedOnRestart(m.rd))
  (+) SetToBag({Interval(NextId, "ticking"), [m EXCEPT !.rd = NextId]})

\* lines 138-143: stopPeriodicCheck() by manager m, on top of `bag`
stopPeriodicCheck(m, bag) ==
  clearInterval(bag, IF m.rd # Null THEN {m.rd} ELSE {})
  (+) SetToBag({[m EXCEPT !.rd = Null]})

\* lines 148-153: addEventListener(event, callback)
addEventListener ==
  /\ Manager.net < MaxListeners
  /\ \E event \in Registered, throws \in BOOLEAN :
       tasks' = Replace(Manager, [Manager EXCEPT
                  !.seen = "addEventListener", !.net = @ + 1,
                  !.fetched = Append(@, Listener(Manager.net + 1, event, throws))])
  /\ UNCHANGED <<storage, sessionValidationInterval, authCheckInProgress,
                 authCheckQueue, now>>

\* The listeners ls without the one of identity id.
RECURSIVE Deleted(_, _)
Deleted(ls, id) ==
  IF ls = <<>> THEN <<>>
  ELSE IF Head(ls).id = id THEN Deleted(Tail(ls), id)
  ELSE <<Head(ls)>> \o Deleted(Tail(ls), id)

\* line 152: the function addEventListener returned is called
removeListener ==
  /\ \E i \in 1 .. Len(Manager.fetched) :
       tasks' = Replace(Manager, [Manager EXCEPT
                  !.seen = "removeListener",
                  !.fetched = Deleted(@, Manager.fetched[i].id)])
  /\ UNCHANGED <<storage, sessionValidationInterval, authCheckInProgress,
                 authCheckQueue, now>>

\* lines 18-19, 27-29: init() calls loadSessionInfo(), which sends
\* getBrowserSessionInfo.
init ==
  /\ \A t \in Live : t.kind # "init"
  /\ Cardinality(Created) + 1 < MaxIntervals
  /\ tasks' = tasks (+) SetToBag({NewTask("init", <<"sm_load">>)})
  /\ UNCHANGED <<storage, sessionValidationInterval, authCheckInProgress,
                 authCheckQueue, now>>

\* lines 27-42: what loadSessionInfo does to manager m when the background
\* has answered with success, without it, or not at all (the message failed).
loadSessionInfo(m, outcome) ==
  IF outcome = "success"
  THEN notifyListeners([m EXCEPT !.seen = "loadSessionInfo",
                                 !.res = SessionInfo], "sessionLoaded")
  ELSE IF outcome = "failed"
  THEN [m EXCEPT !.seen = "loadSessionInfo", !.res = Null]
  ELSE m

\* lines 19-21, 126: loadSessionInfo has returned, to init(), which starts
\* the periodic check, or to the interval's callback.
sessionInfoLoaded(t) ==
  /\ t \in ManagerCalls /\ Top(t) = "sm_load"
  /\ \E outcome \in {"success", "nosuccess", "failed"} :
       LET m == loadSessionInfo(Manager, outcome)
           bag == (tasks (-) SetToBag({t})) (-) SetToBag({Manager})
       IN IF t.kind = "init"
          THEN tasks' = startPeriodicCheck(
                          [m EXCEPT !.seen = "startPeriodicCheck"], bag)
          ELSE tasks' = bag (+) SetToBag({m})
  /\ UNCHANGED <<storage, sessionValidationInterval, authCheckInProgress,
                 authCheckQueue, now>>

\* lines 122-123: the manager's interval fires and sends "checkAuth".
checkIntervalFires ==
  /\ Ticking # {}
  /\ \A t \in Live : t.kind # "fired"
  /\ \E id \in Ticking :
       tasks' = tasks (+) SetToBag({[NewTask("fired", <<"sm_check">>)
                                      EXCEPT !.rd = id]})
  /\ UNCHANGED <<storage, sessionValidationInterval, authCheckInProgress,
                 authCheckQueue, now>>

\* line 125: authStatus.authenticated
SessionAlive(authStatus) == IsAuthenticated(authStatus)

\* lines 122-132, 173-183: "checkAuth" is answered, or the message fails and
\* the callback's promise rejects.  An authenticated answer goes on to
\* loadSessionInfo(); any other sets currentSession to null, notifies
\* sessionExpired and stops the periodic check.
checkAuthAnswered(t) ==
  /\ t \in ManagerCalls /\ Top(t) = "sm_check"
  /\ \/ tasks' = Without(t)
     \/ \E authStatus \in {AuthOk(ServerUser), AuthFail("invalid_token")} :
          IF SessionAlive(authStatus)
          THEN tasks' = Replace(t, [t EXCEPT !.stack = <<"sm_load">>,
                                             !.res = authStatus])
          ELSE tasks' = stopPeriodicCheck(
                          notifyListeners(
                            [Manager EXCEPT !.seen = "stopPeriodicCheck",
                                            !.res = Null], "sessionExpired"),
                          (tasks (-) SetToBag({t})) (-) SetToBag({Manager}))
                        (+) SetToBag({[t EXCEPT !.stack = <<"sm_expired">>,
                                                !.res = authStatus]})
  /\ UNCHANGED <<storage, sessionValidationInterval, authCheckInProgress,
                 authCheckQueue, now>>

\* The interval's callback has returned.
firingOver(t) ==
  /\ t \in Live /\ t.kind = "fired" /\ Top(t) = "sm_expired"
  /\ tasks' = Without(t)
  /\ UNCHANGED <<storage, sessionValidationInterval, authCheckInProgress,
                 authCheckQueue, now>>

\* lines 248-252: destroy()
destroy ==
  /\ Manager.rd # Null \/ Manager.fetched # <<>> \/ Manager.res # Null
  /\ tasks' = stopPeriodicCheck([Manager EXCEPT !.seen = "destroy",
                                                !.fetched = <<>>,
                                                !.res = Null],
                                tasks (-) SetToBag({Manager}))
  /\ UNCHANGED <<storage, sessionValidationInterval, authCheckInProgress,
                 authCheckQueue, now>>

\* lines 8-13: the constructor.
InitManager ==
  /\ now = 0
  /\ authData = NoAuth
  /\ sessionToken = FALSE
  /\ browserSessionData = NoData
  /\ sessionValidationInterval = FALSE
  /\ authCheckInProgress = FALSE
  /\ authCheckQueue = <<>>
  /\ tasks = SetToBag({[NewTask("manager", <<"sm">>) EXCEPT
                          !.rd = Null, !.res = Null, !.fetched = <<>>]})

NextManager ==
  \/ addEventListener
  \/ removeListener
  \/ init
  \/ checkIntervalFires
  \/ destroy
  \/ \E t \in Live : \/ sessionInfoLoaded(t)
                      \/ checkAuthAnswered(t)
                      \/ firingOver(t)

SpecManager == InitManager /\ [][NextManager]_vars

\* ------------------------------------------------------------- properties
\* The tasks whose checkAuthentication() has just resolved (or rejected); the
\* one that ran the check is the one with `seen` set.
Resolved == {t \in Live : Top(t) = "resolved"}
IssuedIsAuthenticated(t) == t.isa > 0
\* GET is_authenticated calls made by the calls in flight together.
IsAuthenticatedCalls ==
  BagCardinality([t \in {x \in Live : IssuedIsAuthenticated(x)} |-> tasks[t]])
StoredExpired ==
  /\ authData # NoAuth
  /\ authData.auth_token # ""
  /\ authData.expires_at # NoExp
  /\ authData.expires_at <= now
SessionKeysAbsent == sessionToken = FALSE /\ browserSessionData = NoData
Reasons == {"no_token", "token_expired", "invalid_token", "server_error",
            "network_error", "storage_error", "unknown"}
Users == {p.user_id : p \in AuthPayloads} \cup {ServerUser}

\* C1 as stated: whenever N >= 1 overlapping calls of checkAuthentication()
\* resolve, exactly one GET is_authenticated was made for them and all of them
\* got the same result.
C1_ExactlyOneCall ==
  /\ \A h \in Resolved : h.seen # "" => IsAuthenticatedCalls = 1
  /\ \A t1 \in Resolved, t2 \in Resolved : t1.res = t2.res

\* C1 amended: the N overlapping calls share one check, which makes exactly one
\* GET is_authenticated when the token it read is missing or expired and none
\* otherwise (an unexpired token, or a token stored without expires_at); all N
\* callers get the same result.
C1_SingleFlight ==
  /\ \A h \in Resolved : h.seen # "" =>
       IsAuthenticatedCalls = IF h.seen \in {"none", "expired"} THEN 1 ELSE 0
  /\ \A t1 \in Resolved, t2 \in Resolved : t1.res = t2.res

\* C1 witness: two callers resolved together after one is_authenticated call.
C1_Witness ==
  \E t1 \in Resolved, t2 \in Resolved :
    t1 # t2 /\ t1.isa = 1 /\ t2.isa = 0 /\ t1.res = t2.res /\ IsAuthenticatedCalls = 1

\* C2: a stored token whose expires_at is in the past is never reported as
\* authenticated: a check that read such a token does not resolve
\* {authenticated:true} while storage still holds a token with
\* expires_at <= now.
C2_ExpiredNeverAuthenticated ==
  \A t \in Resolved : (t.seen = "expired" /\ StoredExpired) => ~IsAuthenticated(t.res)

\* C3: once a call carrying Authorization: Bearer <token> was answered 401 and
\* has failed or finished, storage holds none of authData, sessionToken and
\* browserSessionData.
C3_UnauthorizedClears ==
  \A t \in Live : (t.answer = "401" /\ Top(t) \in PageOver) =>
    authData = NoAuth /\ SessionKeysAbsent

\* C4: when logout() completes, authData, sessionToken and browserSessionData
\* are absent from storage and the revalidation timer is cancelled.
C4_LogoutClears ==
  \A t \in Live : Top(t) = "lo_done" =>
    /\ authData = NoAuth
    /\ SessionKeysAbsent
    /\ sessionValidationInterval = FALSE

\* C5: a check that read a non-empty token with expires_at in the future
\* resolves {authenticated:true} having made no network call.
C5_FastPath ==
  \A t \in Resolved : t.seen = "valid" => IsAuthenticated(t.res) /\ t.net = 0

\* C5 witness: a check that read an unexpired token has resolved.
C5_Witness ==
  \E t \in Resolved : t.seen = "valid" /\ IsAuthenticated(t.res) /\ t.net = 0

\* C6: when is_authenticated answers OK with authenticated=false, the check
\* resolves {authenticated:false, reason:"invalid_token"} and storage then
\* holds neither authData nor the session keys.
C6_InvalidTokenClears ==
  \A t \in Resolved : t.answer = "false" =>
    /\ t.res = AuthFail("invalid_token")
    /\ authData = NoAuth
    /\ SessionKeysAbsent

\* C7: when no token was stored, is_authenticated answered authenticated=true
\* and the check resolves {authenticated:true}, storage holds an authData
\* record with the fetched auth_token, user_id and expires_at.
C7_FetchedAuthDataPersisted ==
  \A t \in Resolved :
    (t.seen = "none" /\ t.answer = "true" /\ IsAuthenticated(t.res)) =>
      /\ t.fetched # None
      /\ authData # NoAuth
      /\ authData.auth_token = t.fetched.auth_token
      /\ authData.user_id = t.fetched.user_id
      /\ authData.expires_at = t.fetched.expires_at

\* C8: when sessions/validate answers OK with authenticated=true, once
\* validateOrCreateBrowserSession() has returned browserSessionData holds the
\* session the server answered with, and authData and sessionToken are still
\* stored.
C8_SessionPersisted ==
  \A t \in Resolved : t.posted = "true" =>
    /\ browserSessionData = ServerSession
    /\ authData # NoAuth
    /\ sessionToken = TRUE

\* C9: every result of checkAuthentication() is {authenticated:true, user} or
\* {authenticated:false, reason} with a reason of the taxonomy; the promise
\* never rejects.
C9_ResultShape ==
  \A t \in Live : t.res # None =>
    t.res \in {AuthOk(u) : u \in Users} \cup {AuthFail(r) : r \in Reasons}

\* C9 witness: a check resolved after the write of updateAuthData failed, the
\* one error that reaches _performAuthCheck's outer catch from a storage call.
C9_Witness ==
  \E t \in Resolved : t.seen = "expired" /\ t.answer = "true" /\ t.res = OnAuthCheckError

\* C10: checkAuthentication() never resolves with reason "unknown".
C10_UnknownUnreachable ==
  \A t \in Resolved : t.res # AuthFail("unknown")

\* C15: on the slow path a non-OK status of is_authenticated or of auth_data
\* is reported as server_error and a network exception of either as
\* network_error.
C15_FailureReasons ==
  \A t \in Resolved :
    /\ t.answer = "notok" => t.res = AuthFail("server_error")
    /\ t.answer = "neterr" => t.res = AuthFail("network_error")
    /\ t.fetched = Failed("notok") => t.res = AuthFail("server_error")
    /\ t.fetched = Failed("neterr") => t.res = AuthFail("network_error")

\* C15 witness: a check whose auth_data call answered a non-OK status has
\* resolved.
C15_Witness ==
  \E t \in Resolved : t.answer = "true" /\ t.fetched = Failed("notok")

\* C20: the callers queued behind an in-flight check are resolved in the order
\* they arrived, before the caller that ran the check, each with that check's
\* result.
C20_FifoFlush ==
  \A t \in Resolved : t.arr > 0 =>
    /\ t.ord = t.arr
    /\ \E h \in Resolved :
         h.arr = 0 /\ h.seen # "" /\ h.ord > t.ord /\ h.res = t.res

\* C20 witness: the second of two queued callers is next to be answered, the
\* first having been answered already.
C20_Witness ==
  \E t \in Resolved :
    /\ t.arr = 2 /\ t.ord = 2
    /\ \A o \in Resolved : o.ord >= 2

\* C11: when a firing of the revalidation timer has re-run
\* checkAuthentication() and the check reported unauthenticated, no
\* revalidation timer is running once the callback has finished.
C11_TimerStopsOnUnauthenticated ==
  \A t \in Live : (Top(t) = "tm_done" /\ ~IsAuthenticated(t.res)) =>
    sessionValidationInterval = FALSE

\* C11 witness: a firing whose check asked the server and was told
\* authenticated=false has finished.
C11_Witness ==
  \E t \in Live :
    Top(t) = "tm_done" /\ t.answer = "false" /\ ~IsAuthenticated(t.res)

\* The operation of task t has finished.
OperationOver(t) ==
  \/ Top(t) \in {"lo_done", "tm_done", "st_done"}
  \/ Top(t) = "resolved" /\ t.kind = "checkAuth"

\* C12: once logout has completed, or an operation that cleared authData
\* (is_authenticated answered authenticated=false or a non-OK status, or a
\* request answered 401) has finished, the revalidation timer is not running.
C12_TimerCancelled ==
  \A t \in Live :
    ( /\ OperationOver(t)
      /\ \/ Top(t) = "lo_done"
         \/ t.answer \in {"false", "notok"}
         \/ t.posted = "401" )
    => sessionValidationInterval = FALSE

\* The task that takes this step.
Steps(t) == t \in Live /\ CopiesIn(t, tasks') < CopiesIn(t, tasks)

\* C13: a call that was in flight when logout() completed writes neither
\* authData nor browserSessionData afterwards (it may only remove them) and
\* does not start the revalidation timer.
C13_StaleResultsDiscarded ==
  [][\A t \in Live : (t.stale /\ Steps(t)) =>
        /\ authData' \in {authData, NoAuth}
        /\ browserSessionData' \in {browserSessionData, NoData}
        /\ (sessionValidationInterval' => sessionValidationInterval)]_vars

\* The getSessionToken() calls that returned since the last clearing.
Returned == {t \in Live : Top(t) = "tk_ret" /\ ~t.stale}

\* C14: the getSessionToken() calls made since the last clearing of session
\* data all returned the same token, and it is the token in storage.
C14_OneSessionToken ==
  \A t \in Returned :
     /\ t.res = sessionToken
     /\ \A u \in Returned : u.res = t.res

\* The popups whose lookup has been answered.
LookedUp == {t \in Live : t.kind = "site" /\ t.seen # ""}

\* C16: a record is taken as fresh iff its last_crawled_at is set and less
\* than 24 hours before now: a minute short of 24 hours is fresh; 24 hours,
\* a minute more, and a missing timestamp are not.
C16_FreshUnderADay ==
  \A t \in LookedUp :
     t.rd.success /\ Truthy(t.rd.data) =>
       LET at == LastCrawledAt(t.rd.data)
           age == now - at
       IN /\ (t.seen = "fresh") = (at # 0 /\ age < 86400000)
          /\ (at # 0 /\ age = 86400000 - 60000) => t.seen = "fresh"
          /\ (at # 0 /\ age = 86400000 + 60000) => t.seen = "stale"
          /\ (at # 0 /\ age = 86400000) => t.seen = "stale"
          /\ (at = 0) => t.seen = "stale"
C16_Witness ==
  \E t \in LookedUp :
     /\ t.rd.success /\ Truthy(t.rd.data) /\ t.seen = "stale"
     /\ LastCrawledAt(t.rd.data) = now - 86400000

\* The popups that show the outcome of their lookup.
Shown == {t \in LookedUp : Top(t) = "shown"}
\* The lookups after which the claim has the record refreshed.
Refreshing == {"failed", "norecord", "stale"}

C18_FallbackToScraped ==
  \A t \in Shown :
     t.net = 1 =>
       /\ t.seen \in Refreshing /\ t.isa = 1
       /\ t.fetched \in {ScrapedData, DefaultData}
       /\ t.posted # "ok" => t.res = t.fetched

\* C19: the listener calls sendResponse once for a command, and for a guarded
\* command of an unauthenticated caller with "Not authenticated" alone.
C19_OneEnvelope ==
  \A t \in Live :
     t.sent # <<>> =>
       /\ Len(t.sent) = 1
       /\ (t.posted = "unauth" \/ t.rd = NotAuthenticated)
             => t.sent = <<NotAuthenticated>>

\* C21: when the sweep's callback has run on an unauthenticated result, no
\* revalidation timer is running.
C21_SweepStopsTimer ==
  \A t \in Live :
     (Top(t) = "sw_done" /\ ~IsAuthenticated(t.res))
       => sessionValidationInterval = FALSE
\* the sweep's own check met a network error, which clears nothing
C21_Witness ==
  \E t \in Live :
     Top(t) = "sw_done" /\ t.answer = "neterr" /\ ~IsAuthenticated(t.res)

\* The pages whose links have been searched.
Scanned == {t \in Live : t.kind = "page" /\ Top(t) = "cs_sent"}
\* The i-th link of doc matches a pattern by its text or its href.
Matches(doc, i) == doc[i].text \/ doc[i].href
\* The places examined: (s, i) for the i-th link under the s-th selector,
\* and (Len(Selectors) + 1, i) for the i-th link among all links.
Examined(doc) ==
  {p \in (1 .. Len(Selectors) + 1) \X (1 .. Len(doc)) :
     p[1] <= Len(Selectors) => p[1] \in doc[p[2]].sel}
Before(p, q) == p[1] < q[1] \/ (p[1] = q[1] /\ p[2] <= q[2])

\* C22: the result is the link at the first examined place that matches, the
\* places being taken selector by selector and then over all links, each in
\* document order; it is the empty string exactly when no link matches.
C22_FirstMatchWins ==
  \A t \in Scanned :
     LET doc == t.rd
         hits == {p \in Examined(doc) : Matches(doc, p[2])}
     IN /\ (t.res = EmptyString) = (\A i \in 1 .. Len(doc) : ~Matches(doc, i))
        /\ \A p \in hits :
             (\A q \in hits : Before(p, q)) => t.res = Href(p[2])
\* the second link wins over the first: it is matched by a selector
C22_Witness ==
  \E t \in Scanned :
     /\ Len(t.rd) >= 2 /\ t.res = Href(2)
     /\ Matches(t.rd, 1) /\ t.rd[1].sel = {}

\* Storage holds an authData record with a non-empty auth_token.
TokenStored == authData # NoAuth /\ authData.auth_token # ""

\* C23: when checkAuthentication() resolves {authenticated: true}, storage
\* holds an authData record with a non-empty auth_token.
C23_AuthenticatedHasToken ==
  \A t \in Resolved : IsAuthenticated(t.res) => TokenStored

\* C24: while the revalidation timer is running, storage holds an authData
\* record with a non-empty auth_token.
C24_TimerOnlyWhileAuthenticated ==
  sessionValidationInterval => TokenStored

\* C25: every interval that was created and is not the one
\* sessionValidationInterval refers to has been cleared; so at most one is
\* ticking.
C25_OneTimer ==
  \A t \in Created :
     t.rd # sessionValidationInterval => Top(t) = "cleared"
\* a second timer was started over the first
C25_Witness ==
  \E t, u \in Created :
     /\ Top(t) = "cleared" /\ Top(u) = "ticking"
     /\ u.rd = sessionValidationInterval

\* The calls of checkAuthentication() that hold the lock: _performAuthCheck
\* is running for them.
Checking == {t \in Live : t.kind = "checkAuth" /\ Top(t) # "resolved"}

\* C26: while no authentication check is executing, authCheckInProgress is
\* false and authCheckQueue is empty.
C26_LockReleased ==
  Checking = {} => (authCheckInProgress = FALSE /\ authCheckQueue = <<>>)
\* a check has just ended with callers behind it
C26_Witness ==
  /\ Checking = {}
  /\ \E t \in Resolved : t.arr = MaxQueue
  /\ authCheckInProgress = FALSE /\ authCheckQueue = <<>>

\* C27: every call of checkAuthentication() eventually resolves: again and
\* again no call holds the lock and none waits in the queue.
C27_EveryCallResolves ==
  []<>(Checking = {} /\ authCheckQueue = <<>>)
\* a caller that waited behind the lock has its answer
C27_Witness ==
  \E t \in Resolved : t.arr = 1 /\ t.res # None /\ authCheckQueue = <<>>

\* C28: when a check that read an expired token and was answered
\* authenticated=true resolves, the stored record still has its token, user
\* and expiry, and the token is still expired; only last_check is new.
C28_OnlyLastCheckRefreshed ==
  \A t \in Resolved :
     (t.seen = "expired" /\ t.answer = "true" /\ IsAuthenticated(t.res)) =>
       /\ authData # NoAuth
       /\ authData.auth_token = "t1" /\ authData.user_id = "u1"
       /\ authData.expires_at \in Stamps /\ authData.expires_at <= now

\* The step of t leaves a check whose is_authenticated call had the outcome a
\* at frame f.
Enters(t, a, f) ==
  /\ Steps(t)
  /\ \E u \in BagToSet(tasks') :
       /\ CopiesIn(u, tasks') > CopiesIn(u, tasks)
       /\ Top(u) = f /\ u.answer = a

\* The step of t resolves such a check with result r.
Reports(t, a, r) ==
  /\ Enters(t, a, "resolved")
  /\ \E u \in BagToSet(tasks') :
       /\ CopiesIn(u, tasks') > CopiesIn(u, tasks)
       /\ Top(u) = "resolved" /\ u.answer = a /\ u.res = r

\* C29: a check whose is_authenticated call threw reports network_error and
\* no step of it changes authData, sessionToken or browserSessionData; a check
\* whose call answered a non-OK status removes authData, then sessionToken and
\* browserSessionData, and only then reports, and what it reports is
\* server_error.
C29_NetworkErrorKeepsServerErrorClears ==
  [][\A t \in Live :
       /\ (Steps(t) /\ Top(t) = "pac_got") => UNCHANGED storage
       /\ Enters(t, "neterr", "resolved") =>
            /\ Top(t) = "pac_isauth"
            /\ Reports(t, "neterr", AuthFail("network_error"))
            /\ UNCHANGED storage
       /\ Enters(t, "notok", "pac_clr_auth") =>
            /\ Top(t) = "pac_isauth"
            /\ authData' = NoAuth
       /\ Enters(t, "notok", "pac_clr_sess") =>
            /\ Top(t) = "pac_clr_auth"
            /\ sessionToken' = FALSE /\ browserSessionData' = NoData
       /\ Enters(t, "notok", "resolved") =>
            /\ Top(t) = "pac_clr_sess"
            /\ Reports(t, "notok", AuthFail("server_error"))
       /\ (Steps(t) /\ Top(t) = "pac_isauth") =>
            \/ Enters(t, "neterr", "resolved")
            \/ Enters(t, "notok", "pac_clr_auth")
            \/ \E f \in {"pac_clr_auth", "pac_authdata", "uad_got"} :
                 Enters(t, "false", f) \/ Enters(t, "true", f)]_vars

\* A check that found an expired token and was answered a non-OK status has
\* reported server_error with the three keys gone.
C29_Witness ==
  \E t \in Resolved :
     /\ t.seen = "expired" /\ t.answer = "notok"
     /\ t.res = AuthFail("server_error")
     /\ storage = <<NoAuth, FALSE, NoData>>

\* The step of t takes a session validation that was answered
\* authenticated=false to frame f.
Answered(t, f) ==
  /\ Steps(t)
  /\ \E u \in BagToSet(tasks') :
       /\ CopiesIn(u, tasks') > CopiesIn(u, tasks)
       /\ Top(u) = f /\ u.posted = "false"

\* C30: when sessions/validate answers OK with authenticated=false,
\* validateOrCreateBrowserSession removes sessionToken and browserSessionData,
\* then removes authData and cancels the revalidation timer, and returns: the
\* check that awaited it resolves, a validation nobody awaited is over.
C30_UnauthenticatedSessionClearsAll ==
  [][\A t \in Live :
       /\ (Steps(t) /\ Top(t) = "mar_fetch" /\ t.stack[2] = "v_req"
              /\ \E f \in {"v_clr", "v_upd_got", "resolved"} : Answered(t, f)) =>
            /\ Answered(t, "v_clr")
            /\ sessionToken' = FALSE /\ browserSessionData' = NoData
       /\ (Steps(t) /\ Top(t) = "v_clr" /\ t.posted = "false") =>
            /\ authData' = NoAuth
            /\ sessionValidationInterval' = FALSE
            /\ IF Bottom(t) = "pac_v" THEN Answered(t, "resolved")
               ELSE tasks' = Without(t)]_vars

\* A check has resolved after the validation it awaited was answered
\* authenticated=false: the three keys are gone and the timer, which
\* setAuthData had started, is cancelled.
C30_Witness ==
  \E t \in Resolved :
     /\ t.posted = "false"
     /\ storage = <<NoAuth, FALSE, NoData>>
     /\ ~sessionValidationInterval

\* The guarded commands whose check has resolved and whose handler has gone on.
Commanded == {t \in Live : t.kind \in GuardedCommands /\ Top(t) # "resolved"
                             /\ t.res # None}

\* C31: a guarded command whose checkAuthentication() resolved
\* unauthenticated sends no request of its operation and answers
\* "Not authenticated" first; a command that is inside its API method, or
\* has sent a request, had its check resolve {authenticated:true}.
C31_OperationOnlyWhenAuthenticated ==
  \A t \in Commanded :
     /\ ~IsAuthenticated(t.res) =>
          /\ t.net = 0
          /\ Top(t) = "g_done"
          /\ Received(t.sent) = NotAuthenticated
     /\ (t.net > 0 \/ Top(t) # "g_done") => IsAuthenticated(t.res)

\* An unauthenticated caller has been answered, and no request was sent.
C31_Witness ==
  \E t \in Commanded :
     /\ ~IsAuthenticated(t.res) /\ t.res # Rejected
     /\ Top(t) = "g_done" /\ t.net = 0

\* The tab updates whose listener is past its check (or made none).
TabFrames == {"t_gst", "t_got", "t_fetch", "t_clr_auth", "t_clr_sess",
              "t_upd_got", "t_upd_set", "t_scan", "t_done"}
Tabs == {t \in Live : t.kind = "tab" /\ Top(t) \in TabFrames}

\* C32: a tab update has sent a POST to sites only if its check resolved
\* {authenticated:true}, its activity update succeeded and the page reported
\* a tos_url or a privacy_policy_url; for a chrome:// URL nothing is sent.
C32_SentOnlyAfterSuccessfulActivity ==
  \A t \in Tabs :
     t.net > 0 =>
       /\ t.seen # "chrome"
       /\ IsAuthenticated(t.res)
       /\ t.answer = "ok"
       /\ t.fetched \in WebsiteData /\ hasPolicy(t.fetched)

\* The setAuthData() calls whose promise has settled.
Settled == {t \in Live : t.kind = "setAuthData" /\ Top(t) = "sad_done"}

\* C33: the callback of setAuthData's write starts the timer (a new interval
\* ticks, the one it replaces is cleared) exactly when the write succeeded and
\* the record has a non-empty auth_token, and then the promise resolves; when
\* the write failed the promise rejects and the timer is as it was.
C33_TimerStartedIffTokenSaved ==
  [][\A t \in Live :
       (Steps(t) /\ t.kind = "setAuthData" /\ Top(t) \in {"sad_ok", "sad_fail"}) =>
         LET saved == Top(t) = "sad_ok" IN
         /\ \E u \in Settled' : u.res = IF saved THEN Undefined ELSE Rejected
         /\ IF saved /\ t.rd # ""
            THEN /\ sessionValidationInterval' \notin Ticking \cup {Null}
                 /\ Ticking' = {sessionValidationInterval'}
                                \cup (Ticking \ {sessionValidationInterval})
            ELSE /\ UNCHANGED sessionValidationInterval
                 /\ Ticking' = Ticking]_vars

\* A successful write of a record with a token has restarted a running timer.
C33_Witness ==
  /\ \E t \in Settled : t.res = Undefined /\ t.rd # ""
  /\ \E c \in Created : Top(c) = "cleared"
  /\ sessionValidationInterval \in Ticking

\* C34: when the write of the fetched auth data fails, the step that takes
\* the rejection resolves the check with {authenticated:false,
\* reason:"storage_error"}; no session validation was run for it, and the
\* timer and storage are as they were.
C34_StorageErrorSkipsValidation ==
  [][\A t \in Live :
       (Steps(t) /\ Top(t) = "sad_fail" /\ t.stack[2] = "pac_new") =>
         /\ \E u \in Resolved' :
              /\ u.res = AuthFail("storage_error")
              /\ u.fetched = t.fetched /\ u.posted = ""
         /\ \A u \in BagToSet(tasks') : IsSpawned(u) => u \in Live
         /\ UNCHANGED <<sessionValidationInterval, storage>>]_vars

\* A check whose fetched record had a token and could not be saved has
\* reported storage_error, and no timer runs.
C34_Witness ==
  \E t \in Resolved :
     /\ t.res = AuthFail("storage_error")
     /\ t.fetched \in AuthPayloads /\ t.fetched.auth_token # ""
     /\ t.posted = ""
     /\ ~sessionValidationInterval

\* The step of t leaves a page's check at frame f having made n calls to
\* is_authenticated.
PopupCheckAt(t, f, n) ==
  /\ Steps(t)
  /\ \E u \in BagToSet(tasks') :
       /\ CopiesIn(u, tasks') > CopiesIn(u, tasks)
       /\ u.kind = "popupCheck" /\ Top(u) = f /\ u.net = n /\ u.isa = n

\* The step of t makes a page's check return r.
PopupCheckReturns(t, r) ==
  /\ Steps(t)
  /\ \E u \in BagToSet(tasks') :
       /\ CopiesIn(u, tasks') > CopiesIn(u, tasks)
       /\ u.kind = "popupCheck" /\ Top(u) = "pc_ret" /\ u.res = r

\* C35: the pages' checkAuthentication() returns no_token without a network
\* call when no token is stored; when the stored expires_at is earlier than
\* now it removes authData and returns token_expired without a network call;
\* in every other case it calls is_authenticated, once.
C35_PopupCheckLocalOutcomes ==
  [][\A t \in Live :
       /\ (Steps(t) /\ Top(t) = "pc_got") =>
            IF t.rd.auth_token = ""
            THEN /\ PopupCheckAt(t, "pc_ret", 0)
                 /\ PopupCheckReturns(t, AuthFail("no_token"))
                 /\ UNCHANGED storage
            ELSE IF t.rd.expires_at \in Stamps /\ t.rd.expires_at < now
            THEN /\ PopupCheckAt(t, "pc_clr", 0)
                 /\ authData' = NoAuth
            ELSE /\ PopupCheckAt(t, "pc_isauth", 1)
                 /\ UNCHANGED storage
       /\ (Steps(t) /\ Top(t) = "pc_clr" /\ t.isa = 0) =>
            /\ PopupCheckAt(t, "pc_ret", 0)
            /\ PopupCheckReturns(t, AuthFail("token_expired"))]_vars

\* A page's check has returned token_expired without a network call, and
\* authData is gone.
C35_Witness ==
  \E t \in Live :
     /\ t.kind = "popupCheck" /\ Top(t) = "pc_ret"
     /\ t.res = AuthFail("token_expired") /\ t.net = 0
     /\ authData = NoAuth

\* The calls whose "checkAuth" is answered unauthenticated in this step.
Expiring == {t \in ManagerCalls : /\ Top(t) = "sm_check"
                                  /\ CopiesIn(t, tasks') < CopiesIn(t, tasks)
                                  /\ \E u \in BagToSet(tasks') :
                                       /\ u.kind = "fired"
                                       /\ Top(u) = "sm_expired"}
\* The manager as the step leaves it.
ManagerAfter == CHOOSE m \in BagToSet(tasks') : m.kind = "manager"
\* The intervals ticking after the step.
TickingAfter == {c.rd : c \in {t \in BagToSet(tasks') :
                                 t.kind = "interval" /\ Top(t) = "ticking"}}
\* The listeners of ls that notifyListeners(event) is for.
RECURSIVE Matching(_, _)
Matching(ls, event) ==
  IF ls = <<>> THEN <<>>
  ELSE IF Head(ls).event \in {event, "*"}
  THEN <<Head(ls).id>> \o Matching(Tail(ls), event)
  ELSE Matching(Tail(ls), event)

\* C36: the only interval that can be ticking is the manager's checkInterval,
\* so at most one is; a firing only comes from a ticking interval; the firing
\* whose checkAuth is answered unauthenticated sets currentSession to null,
\* notifies sessionExpired, which reaches every listener of that event
\* once, and leaves no interval ticking; the state
\* destroy() leaves has no interval ticking either.
C36_OneIntervalStoppedOnExpiry ==
  /\ [](/\ Ticking \subseteq {Manager.rd}
        /\ Cardinality(Ticking) <= 1
        /\ Manager.seen = "destroy" => Ticking = {} /\ Manager.rd = Null)
  /\ [][/\ \A u \in BagToSet(tasks') :
             (u.kind = "fired" /\ CopiesIn(u, tasks') > CopiesIn(u, tasks)
              /\ Top(u) = "sm_check") => u.rd \in Ticking
        /\ Expiring # {} =>
             /\ ManagerAfter.res = Null
             /\ ManagerAfter.answer = "sessionExpired"
             /\ ManagerAfter.sent = Matching(Manager.fetched, "sessionExpired")
             /\ ManagerAfter.rd = Null
             /\ TickingAfter = {}]_vars

\* A second interval was started; its firing was answered unauthenticated,
\* sessionExpired went to two listeners, and no interval is ticking.
C36_Witness ==
  /\ \E t \in Live : t.kind = "fired" /\ Top(t) = "sm_expired"
  /\ Manager.answer = "sessionExpired" /\ Len(Manager.sent) = 2
  /\ Manager.seen = "stopPeriodicCheck"
  /\ Cardinality(Created) >= 2 /\ Ticking = {}

\* The identities of the listeners ls.
Ids(ls) == {ls[i].id : i \in 1 .. Len(ls)}
\* The event notified in this step, if one is: a call's loadSessionInfo
\* succeeded, or its checkAuth was answered unauthenticated.
Notified ==
  IF Expiring # {} THEN {"sessionExpired"}
  ELSE IF /\ \E t \in ManagerCalls : /\ Top(t) = "sm_load"
                                     /\ CopiesIn(t, tasks') < CopiesIn(t, tasks)
          /\ ManagerAfter.seen = "loadSessionInfo"
          /\ ManagerAfter.res = SessionInfo
  THEN {"sessionLoaded"}
  ELSE {}

\* C37: notifyListeners(event) invokes, once each and in the order they were
\* added, exactly the listeners registered at the call whose event is the
\* notified one or "*", whether or not one of them throws; a listener's
\* identity is never given to another, the call of the function
\* addEventListener returned takes one listener out, destroy() takes all of
\* them out, and a listener that is out never comes back.
C37_NotifiesExactlyRegistered ==
  /\ [](/\ \A id \in Ids(Manager.fetched) : id <= Manager.net
        /\ Cardinality(Ids(Manager.fetched)) = Len(Manager.fetched)
        /\ Manager.seen = "destroy" => Manager.fetched = <<>>)
  /\ [][/\ \A event \in Notified :
             /\ ManagerAfter.answer = event
             /\ ManagerAfter.sent = Matching(Manager.fetched, event)
        /\ Ids(ManagerAfter.fetched) \subseteq
             Ids(Manager.fetched) \cup {Manager.net + 1}
        /\ ManagerAfter.net >= Manager.net
        /\ (ManagerAfter.seen = "removeListener" /\ ManagerAfter # Manager)
             => \E id \in Ids(Manager.fetched) :
                  Ids(ManagerAfter.fetched) = Ids(Manager.fetched) \ {id}]_vars

\* Two listeners were notified of sessionLoaded although the first of them
\* throws.
C37_Witness ==
  /\ Manager.seen = "loadSessionInfo" /\ Manager.answer = "sessionLoaded"
  /\ Len(Manager.fetched) = 2 /\ Manager.fetched[1].throws
  /\ Manager.sent = <<Manager.fetched[1].id, Manager.fetched[2].id>>
====
